---- MODULE Spec2Model ----
(***************************************************************************)
(* A model of the NXF decoder of pmw2-utils (src/nxf/src/lib.rs).          *)
(*                                                                         *)
(* The decoder is a set of Rust functions over one seekable byte source.   *)
(* Each function is written here as the sequence of its statements (one    *)
(* instruction per statement of the source), and one action per kind of    *)
(* statement executes them over an explicit call stack, so that the        *)
(* cursor, the saved positions and every seek and read are state.          *)
(***************************************************************************)
EXTENDS Integers, Sequences, FiniteSets, TLC

VARIABLES
    file,     \* the byte source: a sequence of bytes, byte at offset o is file[o+1]
    pos,      \* the cursor of the source (absolute offset)
    stack,    \* the call stack: frames [fn, pc, loc, pos0, t0]
    status,   \* "run", "unwind" (an Err is travelling up through `?`), "ok", "err", "panic"
    result,   \* <<>> while running, else <<value>>, <<error>> or <<panic>>
    log       \* every seek and read made so far: <<kind, a, b, fn>>

vars == <<file, pos, stack, status, result, log>>

----------------------------------------------------------------------------
(* Bounds of the inputs.                                                   *)

MaxChain == 2     \* longest material / facelist-set / facelist chain built
MaxFaces == 2     \* largest declared face count built
MaxElems == 2     \* largest declared vertex / normal / colour / uv count built
MaxWalk == 4      \* records a chain decoder collects before the model stops following it
MaxClumps == 2    \* most clumps of a scene template built
MaxPlacements == 2 \* most placements of a clump built

----------------------------------------------------------------------------
(* Bytes and big-endian integers.                                          *)

EmptyLoc == [x \in {} |-> 0]

RECURSIVE BEValue(_)
\* byteorder BE: the unsigned value of a byte sequence, most significant first
BEValue(bs) ==
    IF bs = <<>> THEN 0
    ELSE BEValue(SubSeq(bs, 1, Len(bs) - 1)) * 256 + bs[Len(bs)]

\* the bytes of f at offsets p .. p+n-1
Slice(f, p, n) == SubSeq(f, p + 1, p + n)

\* Read::read in the place of read_exact: at the end of the source the bytes
\* that are left, the rest of the buffer staying 0
read_exact_short(f, p, n) ==
    IF p + n <= Len(f)
    THEN [ok |-> TRUE, bytes |-> Slice(f, p, n), pos |-> p + n]
    ELSE [ok |-> TRUE,
          bytes |-> [i \in 1..n |-> IF p + i <= Len(f) THEN f[p + i] ELSE 0],
          pos |-> IF p < Len(f) THEN Len(f) ELSE p]

\* Read::read_exact on a std::fs::File, as byteorder's read_u8/u16/u32/f32 and
\* NxfObjGeom's id use it: all n bytes, or UnexpectedEof with the cursor left
\* at the end of what could be read.  Never a short value.
read_exact(f, p, n) ==
    IF p + n <= Len(f)
    THEN [ok |-> TRUE, bytes |-> Slice(f, p, n), pos |-> p + n]
    ELSE [ok |-> FALSE, bytes |-> <<>>, pos |-> IF p < Len(f) THEN Len(f) ELSE p]

----------------------------------------------------------------------------
(* UTF-8, as String::from_utf8 validates and decodes it.                   *)

IsCont(b) == b >= 128 /\ b <= 191

RECURSIVE Utf8Decode(_)
\* the code points of a byte sequence, or <<-1>> when it is not valid UTF-8
Utf8Decode(bs) ==
    IF bs = <<>> THEN <<>>
    ELSE LET b0 == bs[1]
             n  == Len(bs)
             len == IF b0 <= 127 THEN 1
                    ELSE IF b0 >= 194 /\ b0 <= 223 THEN 2
                    ELSE IF b0 >= 224 /\ b0 <= 239 THEN 3
                    ELSE IF b0 >= 240 /\ b0 <= 244 THEN 4
                    ELSE 0
             wellFormed ==
                 /\ len > 0
                 /\ n >= len
                 /\ \A i \in 2..len : IsCont(bs[i])
                 /\ (b0 = 224 => bs[2] >= 160)
                 /\ (b0 = 237 => bs[2] <= 159)
                 /\ (b0 = 240 => bs[2] >= 144)
                 /\ (b0 = 244 => bs[2] <= 143)
             cp == IF len = 1 THEN b0
                   ELSE IF len = 2 THEN (b0 - 192) * 64 + (bs[2] - 128)
                   ELSE IF len = 3 THEN (b0 - 224) * 4096 + (bs[2] - 128) * 64
                                         + (bs[3] - 128)
                   ELSE (b0 - 240) * 262144 + (bs[2] - 128) * 4096
                        + (bs[3] - 128) * 64 + (bs[4] - 128)
         IN  IF ~wellFormed THEN <<-1>>
             ELSE LET rest == Utf8Decode(SubSeq(bs, len + 1, n))
                  IN  IF rest = <<-1>> THEN <<-1>> ELSE <<cp>> \o rest

----------------------------------------------------------------------------
(* Instructions: one per statement of the source.                          *)

U8(d)    == [op |-> "rd", n |-> 1, dst |-> d, raw |-> FALSE]   \* read_u8()?
U16(d)   == [op |-> "rd", n |-> 2, dst |-> d, raw |-> FALSE]   \* read_u16::<BE>()?
U32(d)   == [op |-> "rd", n |-> 4, dst |-> d, raw |-> FALSE]   \* read_u32::<BE>()?
F32(d)   == [op |-> "rd", n |-> 4, dst |-> d, raw |-> FALSE]   \* read_f32::<BE>()?, kept as its bits
Bytes(n, d) == [op |-> "rd", n |-> n, dst |-> d, raw |-> TRUE] \* read_exact(&mut buf)?
SeekCur(d)   == [op |-> "seekcur", dst |-> d]                  \* seek(SeekFrom::Current(0))?
SeekStart(s) == [op |-> "seek", src |-> s]                     \* seek(SeekFrom::Start(s))?
Set(d, v)    == [op |-> "set", dst |-> d, val |-> v]           \* let d = v
Push(l, s)   == [op |-> "push", dst |-> l, src |-> s]          \* l.push(s)
Get(d, s, f) == [op |-> "get", dst |-> d, src |-> s, field |-> f] \* d = s.f
Brz(s, to)   == [op |-> "brz", src |-> s, to |-> to]           \* leave when s = 0
For(i, n, to) == [op |-> "for", i |-> i, n |-> n, to |-> to]   \* next() of 0..n
Call(fn, args, d) == [op |-> "call", fn |-> fn, args |-> args, dst |-> d] \* d = fn(args)?
\* d = read.read_at_offset(off, closure)?
AtOffset(off, closure, d) ==
    [op |-> "call", fn |-> "read_at_offset", args |-> [offset |-> off],
     f |-> closure, dst |-> d]
CallF(d)     == [op |-> "callf", dst |-> d]                    \* d = f(self)?
RetV(s)      == [op |-> "retv", src |-> s]                     \* Ok(s)
Ret(c, fs)   == [op |-> "ret", ctor |-> c, fields |-> fs]      \* Ok(c { fs })
Then(ins, to) == ins @@ [next |-> to]                          \* ins, then continue at to

\* a record decoder that reads its fields one after the other and builds c
RdStruct(n, c, fs) ==
    [i \in 1..Len(fs) |-> [op |-> "rd", n |-> n, dst |-> fs[i], raw |-> FALSE]]
    \o <<Ret(c, fs)>>

\* let mut l = Vec::new(); for _ in 0..n { let e = fn(read)?; l.push(e); } Ok(l)
CollectLoop(l, n, fn, e) ==
    << Set(l, <<>>), Set("_i", 0), For("_i", n, 6),
       Call(fn, EmptyLoc, e), Then(Push(l, e), 3), RetV(l) >>

----------------------------------------------------------------------------
(* The functions of src/nxf/src/lib.rs, statement by statement.  A jump    *)
(* target is the index of an instruction in the same sequence.             *)

\* read_at_offset without the seek back to the saved position
read_at_offset_no_restore ==
    << SeekCur("saved_offset"), SeekStart("offset"), CallF("result"),
       RetV("result") >>

\* read_at_offset that, when its step fails, seeks back to the saved position
\* and returns an empty value in the place of the error
read_at_offset_restores_on_error ==
    << SeekCur("saved_offset"), SeekStart("offset"),
       CallF("result") @@ [catch |-> 6],
       SeekStart("saved_offset"), RetV("result"),
       Then(Set("result", <<>>), 4) >>

\* ReadFileExt::read_at_offset(offset, f)
read_at_offset ==
    << SeekCur("saved_offset"),          \* let saved_offset = self.seek(Current(0))?;
       SeekStart("offset"),              \* self.seek(Start(offset))?;
       CallF("result"),                  \* let result = f(self)?;
       SeekStart("saved_offset"),        \* self.seek(Start(saved_offset))?;
       RetV("result") >>                 \* Ok(result)

\* read_string that pushes the byte before it tests it for 0
read_string_keeps_zero ==
    << Set("buffer", <<>>),
       [op |-> "byte", dst |-> "byte", eof |-> 5],
       Push("buffer", "byte"),
       Then(Brz("byte", 5), 2),
       [op |-> "from_utf8", src |-> "buffer", dst |-> "string"],
       RetV("string") >>

\* ReadFileExt::read_string()
read_string ==
    << Set("buffer", <<>>),                              \* let mut buffer = Vec::new();
       [op |-> "byte", dst |-> "byte", eof |-> 5],      \* bytes.next(): None => break
       Brz("byte", 5),                                   \* if byte == 0 { break }
       Then(Push("buffer", "byte"), 2),                  \* else { buffer.push(byte) }
       [op |-> "from_utf8", src |-> "buffer", dst |-> "string"],  \* from_utf8(buffer).unwrap()
       RetV("string") >>

\* |read| { Ok(read.read_string()?) }   (lines 68-70 and 742-744)
read_string_f == << Call("read_string", EmptyLoc, "s"), RetV("s") >>

NxfMaterialFields ==
    << "tex_pmi", "ref_pmi", "tex_name", "ref_map", "ref_r", "ref_g", "ref_b",
       "ref_a", "flags", "alpha_mode", "env_map_alpha_mode" >>

\* NxfMaterial::from_read
NxfMaterial_from_read ==
    << U32("tex_pmi"), U32("ref_pmi"),
       U32("tex_name_offset"),
       AtOffset("tex_name_offset", "read_string_f", "tex_name"),
       U32("ref_map"),
       U8("ref_r"), U8("ref_g"), U8("ref_b"), U8("ref_a"),
       U32("flags"), U32("alpha_mode"), U32("env_map_alpha_mode"),
       U32("_pad1"), U32("_pad2"),
       Ret("NxfMaterial", NxfMaterialFields) >>

\* list_from_read with `if offset != 0` in the place of `while offset != 0`
NxfMaterial_list_from_read_once ==
    << SeekCur("save"), Set("materials", <<>>), Brz("offset", 8),
       SeekStart("offset"), Call("NxfMaterial_from_read", EmptyLoc, "material"),
       Push("materials", "material"), Then(U32("offset"), 8),
       SeekStart("save"), RetV("materials") >>

\* list_from_read without the seek back to the saved position after the walk
NxfMaterial_list_from_read_no_restore ==
    << SeekCur("save"), Set("materials", <<>>), Brz("offset", 8),
       SeekStart("offset"), Call("NxfMaterial_from_read", EmptyLoc, "material"),
       Push("materials", "material"), Then(U32("offset"), 3),
       RetV("materials"), RetV("materials") >>

\* list_from_read that decodes the rest of the chain by calling itself on the
\* next offset before it seeks back
NxfMaterial_list_from_read_recursive ==
    << SeekCur("save"), Set("materials", <<>>), Brz("offset", 9),
       SeekStart("offset"), Call("NxfMaterial_from_read", EmptyLoc, "material"),
       Push("materials", "material"), U32("offset"),
       Call("NxfMaterial_list_from_read", [offset |-> "offset"], "rest"),
       SeekStart("save"), RetV("materials") >>

\* NxfMaterial::list_from_read(offset)
NxfMaterial_list_from_read ==
    << SeekCur("save"),                                     \* 1
       Set("materials", <<>>),                              \* 2
       Brz("offset", 8),                                    \* 3 while offset != 0
       SeekStart("offset"),                                 \* 4
       Call("NxfMaterial_from_read", EmptyLoc, "material"), \* 5
       Push("materials", "material"),                       \* 6
       Then(U32("offset"), 3),                              \* 7 offset = read_u32()?
       SeekStart("save"),                                   \* 8
       RetV("materials") >>                                 \* 9

Vec3_from_read  == RdStruct(4, "Vec3", <<"x", "y", "z">>)
Color_from_read == RdStruct(1, "Color", <<"r", "g", "b", "a">>)
Uv_from_read    == RdStruct(4, "Uv", <<"u", "v">>)

NxfArrayFields ==
    << "min_x", "min_y", "min_z", "max_x", "max_y", "max_z", "c_x", "c_y", "c_z",
       "radius", "max_verts", "max_normals", "max_cols", "max_uvs",
       "verts", "normals", "colors", "uvs", "flags" >>

\* the four closures of NxfArray::from_read (lines 238-245, 252-259, 266-273, 280-287)
NxfArray_verts_f   == CollectLoop("verts", "num_verts", "Vec3_from_read", "vert")
NxfArray_normals_f == CollectLoop("normals", "num_normals", "Vec3_from_read", "normal")
NxfArray_colors_f  == CollectLoop("colors", "num_cols", "Color_from_read", "color")
NxfArray_uvs_f     == CollectLoop("uvs", "num_uvs", "Uv_from_read", "uv")

\* NxfArray::from_read
NxfArray_from_read ==
    << F32("min_x"), F32("min_y"), F32("min_z"),                    \* 1-3
       U32("num_uvs"),                                              \* 4
       F32("max_x"), F32("max_y"), F32("max_z"),                    \* 5-7
       U32("num_normals"),                                          \* 8
       F32("c_x"), F32("c_y"), F32("c_z"), F32("radius"),           \* 9-12
       U32("num_verts"), U32("num_cols"),                           \* 13-14
       U32("max_verts"), U32("max_normals"),                        \* 15-16
       U32("max_cols"), U32("max_uvs"),                             \* 17-18
       U32("verts_offset"),                                         \* 19
       Brz("verts_offset", 22),                                     \* 20 if verts_offset != 0
       Then(AtOffset("verts_offset", "NxfArray_verts_f", "verts"), 23),   \* 21
       Set("verts", <<>>),                                          \* 22 else Vec::new()
       U32("normals_offset"),                                       \* 23
       Brz("normals_offset", 26),                                   \* 24
       Then(AtOffset("normals_offset", "NxfArray_normals_f", "normals"), 27), \* 25
       Set("normals", <<>>),                                        \* 26
       U32("colors_offset"),                                        \* 27
       Brz("colors_offset", 30),                                    \* 28
       Then(AtOffset("colors_offset", "NxfArray_colors_f", "colors"), 31), \* 29
       Set("colors", <<>>),                                         \* 30
       U32("uvs_offset"),                                           \* 31
       Brz("uvs_offset", 34),                                       \* 32
       Then(AtOffset("uvs_offset", "NxfArray_uvs_f", "uvs"), 35),   \* 33
       Set("uvs", <<>>),                                            \* 34
       U32("flags"), U32("_pad1"), U32("_pad2"),                    \* 35-37
       Ret("NxfArray", NxfArrayFields) >>                           \* 38

\* the six fixed-layout triangle records
NxfColLitTri_from_read ==
    RdStruct(2, "NxfColLitTri",
             <<"v0", "n0", "c0", "v1", "n1", "c1", "v2", "n2", "c2">>)
NxfTexLitTri_from_read ==
    RdStruct(2, "NxfTexLitTri",
             <<"v0", "n0", "c0", "uv0", "v1", "n1", "c1", "uv1",
               "v2", "n2", "c2", "uv2">>)
NxfTexUnlitTri_from_read ==
    RdStruct(2, "NxfTexUnlitTri",
             <<"v0", "c0", "uv0", "v1", "c1", "uv1", "v2", "c2", "uv2">>)
NxfColUnlitTri_from_read ==
    RdStruct(2, "NxfColUnlitTri", <<"v0", "c0", "v1", "c1", "v2", "c2">>)
NxfTexLitEnvTri_from_read ==
    RdStruct(2, "NxfTexLitEnvTri",
             <<"v0", "n0", "c0", "uv0", "m0", "v1", "n1", "c1", "uv1", "m1",
               "v2", "n2", "c2", "uv2", "m2">>)
NxfColLitEnvTri_from_read ==
    RdStruct(2, "NxfColLitEnvTri",
             <<"v0", "n0", "c0", "m0", "v1", "n1", "c1", "m1",
               "v2", "n2", "c2", "m2">>)

\* one arm of the match of NxfFaces::from_read, its first instruction at index b
FacesArm(b, fn, variant) ==
    << Set("faces", <<>>), Set("_i", 0), For("_i", "num", b + 5),
       Call(fn, EmptyLoc, "face"), Then(Push("faces", "face"), b + 2),
       Ret(variant, <<"faces">>) >>

\* the match of NxfFaces::from_read over its six arms and its `_` arm
FacesMatch(arms, other) ==
    << [op |-> "match", src |-> "facelist_type", arms |-> arms, other |-> other] >>
    \o FacesArm(2, "NxfColLitTri_from_read", "ColLitTri")
    \o FacesArm(8, "NxfTexLitTri_from_read", "TexLitTri")
    \o FacesArm(14, "NxfTexUnlitTri_from_read", "TexUnlitTri")
    \o FacesArm(20, "NxfColUnlitTri_from_read", "ColUnlitTri")
    \o FacesArm(26, "NxfTexLitEnvTri_from_read", "TexLitEnvTri")
    \o FacesArm(32, "NxfColLitEnvTri_from_read", "ColLitEnvTri")
    \o << [op |-> "panic", msg |-> "Bad face type"] >>

\* from_read with the arm of tag 10 running the body of tag 11
NxfFaces_from_read_crossed ==
    FacesMatch((6 :> 2) @@ (8 :> 8) @@ (10 :> 20) @@ (11 :> 20)
               @@ (20 :> 26) @@ (21 :> 32), 38)

\* from_read whose `_` arm runs the body of the first arm
NxfFaces_from_read_fallback ==
    FacesMatch((6 :> 2) @@ (8 :> 8) @@ (10 :> 14) @@ (11 :> 20)
               @@ (20 :> 26) @@ (21 :> 32), 2)

\* NxfFaces::from_read(facelist_type, num)
NxfFaces_from_read ==
    FacesMatch((6 :> 2) @@ (8 :> 8) @@ (10 :> 14) @@ (11 :> 20)
               @@ (20 :> 26) @@ (21 :> 32), 38)

\* |mut read| { NxfMaterial::from_read(&mut read) }   (lines 619-621)
NxfFacelist_material_f ==
    << Call("NxfMaterial_from_read", EmptyLoc, "r"), RetV("r") >>

\* |mut read| { NxfFaces::from_read(&mut read, facelist_type, num_faces) }
NxfFacelist_faces_f ==
    << Call("NxfFaces_from_read",
            [facelist_type |-> "facelist_type", num |-> "num_faces"], "r"),
       RetV("r") >>

NxfFacelistFields ==
    << "flags", "attribs", "material", "faces", "next_facelist",
       "display_list", "display_list_size" >>

\* from_read that follows the field before the material offset
NxfFacelist_from_read_wrong_offset ==
    << U16("flags"), U8("facelist_type"), U8("attribs"), U32("_pad"),
       U32("material_offset"),
       AtOffset("_pad", "NxfFacelist_material_f", "material"),
       U32("num_faces"),
       U32("faces_offset"),
       AtOffset("faces_offset", "NxfFacelist_faces_f", "faces"),
       U32("next_facelist"),
       U32("display_list"), U32("display_list_size"),
       Ret("NxfFacelist", NxfFacelistFields) >>

\* from_read that decodes the faces at the material offset
NxfFacelist_from_read_faces_at_material ==
    << U16("flags"), U8("facelist_type"), U8("attribs"), U32("_pad"),
       U32("material_offset"),
       AtOffset("material_offset", "NxfFacelist_material_f", "material"),
       U32("num_faces"),
       U32("faces_offset"),
       AtOffset("material_offset", "NxfFacelist_faces_f", "faces"),
       U32("next_facelist"),
       U32("display_list"), U32("display_list_size"),
       Ret("NxfFacelist", NxfFacelistFields) >>

\* NxfFacelist::from_read
NxfFacelist_from_read ==
    << U16("flags"), U8("facelist_type"), U8("attribs"), U32("_pad"),
       U32("material_offset"),
       AtOffset("material_offset", "NxfFacelist_material_f", "material"),
       U32("num_faces"),
       U32("faces_offset"),
       AtOffset("faces_offset", "NxfFacelist_faces_f", "faces"),
       U32("next_facelist"),
       U32("display_list"), U32("display_list_size"),
       Ret("NxfFacelist", NxfFacelistFields) >>

\* list_from_read with `if offset != 0` in the place of `while offset != 0`
NxfFacelist_list_from_read_once ==
    << SeekCur("save"), Set("facelists", <<>>), Brz("offset", 8),
       SeekStart("offset"), Call("NxfFacelist_from_read", EmptyLoc, "facelist"),
       Get("offset", "facelist", "next_facelist"),
       Then(Push("facelists", "facelist"), 8),
       SeekStart("save"), RetV("facelists") >>

\* list_from_read that goes on with the display-list field of the record
NxfFacelist_list_from_read_display_list ==
    << SeekCur("save"), Set("facelists", <<>>), Brz("offset", 8),
       SeekStart("offset"), Call("NxfFacelist_from_read", EmptyLoc, "facelist"),
       Get("offset", "facelist", "display_list"),
       Then(Push("facelists", "facelist"), 3),
       SeekStart("save"), RetV("facelists") >>

\* NxfFacelist::list_from_read(offset)
NxfFacelist_list_from_read ==
    << SeekCur("save"),                                      \* 1
       Set("facelists", <<>>),                               \* 2
       Brz("offset", 8),                                     \* 3 while offset != 0
       SeekStart("offset"),                                  \* 4
       Call("NxfFacelist_from_read", EmptyLoc, "facelist"),  \* 5
       Get("offset", "facelist", "next_facelist"),           \* 6
       Then(Push("facelists", "facelist"), 3),               \* 7
       SeekStart("save"),                                    \* 8
       RetV("facelists") >>                                  \* 9

\* from_read that follows the matrix-palette offset
NxfFacelistSet_from_read_palette ==
    << U32("flags"), U32("_pad"),
       U32("_num_lists"),
       U32("first_facelist"),
       Call("NxfFacelist_list_from_read", [offset |-> "first_facelist"], "facelists"),
       U32("_mat_palette_offset"),
       AtOffset("_mat_palette_offset", "NxfFacelist_material_f", "_palette"),
       Set("mat_palette", "Some"),
       Ret("NxfFacelistSet", <<"flags", "facelists", "mat_palette">>) >>

\* from_read that walks the facelist chain only when the declared count is
\* not 0
NxfFacelistSet_from_read_counted ==
    << U32("flags"), U32("_pad"),
       U32("_num_lists"),
       U32("first_facelist"),
       Set("facelists", <<>>),
       Brz("_num_lists", 8),
       Call("NxfFacelist_list_from_read", [offset |-> "first_facelist"], "facelists"),
       U32("_mat_palette_offset"),
       Set("mat_palette", "None"),
       Ret("NxfFacelistSet", <<"flags", "facelists", "mat_palette">>) >>

\* NxfFacelistSet::from_read
NxfFacelistSet_from_read ==
    << U32("flags"), U32("_pad"),
       U32("_num_lists"),
       U32("first_facelist"),
       Call("NxfFacelist_list_from_read", [offset |-> "first_facelist"], "facelists"),
       U32("_mat_palette_offset"),
       Set("mat_palette", "None"),
       Ret("NxfFacelistSet", <<"flags", "facelists", "mat_palette">>) >>

\* list_from_read that ends the walk at the first set that fails to decode
\* and returns the sets decoded so far
NxfFacelistSet_list_from_read_lenient ==
    << SeekCur("save"), Set("facelist_sets", <<>>), Brz("offset", 8),
       SeekStart("offset"),
       Call("NxfFacelistSet_from_read", EmptyLoc, "facelist_set") @@ [catch |-> 8],
       Push("facelist_sets", "facelist_set"),
       Then(U32("offset"), 3),
       SeekStart("save"), RetV("facelist_sets") >>

\* list_from_read without the seek back to the saved position after the walk
NxfFacelistSet_list_from_read_no_restore ==
    << SeekCur("save"), Set("facelist_sets", <<>>), Brz("offset", 8),
       SeekStart("offset"),
       Call("NxfFacelistSet_from_read", EmptyLoc, "facelist_set"),
       Push("facelist_sets", "facelist_set"),
       Then(U32("offset"), 3),
       RetV("facelist_sets"), RetV("facelist_sets") >>

\* NxfFacelistSet::list_from_read(offset)
NxfFacelistSet_list_from_read ==
    << SeekCur("save"),                                           \* 1
       Set("facelist_sets", <<>>),                                \* 2
       Brz("offset", 8),                                          \* 3 while offset != 0
       SeekStart("offset"),                                       \* 4
       Call("NxfFacelistSet_from_read", EmptyLoc, "facelist_set"), \* 5
       Push("facelist_sets", "facelist_set"),                     \* 6
       Then(U32("offset"), 3),                                    \* 7
       SeekStart("save"),                                         \* 8
       RetV("facelist_sets") >>                                   \* 9

\* the string-table closure following the offset of the table in the place of
\* the offset stored in the slot
NxfObjGeom_strings_f_table_offset ==
    << Set("strings", <<>>), Set("_i", 0),
       For("_i", "num_strings", 7),
       U32("string_offset"),
       AtOffset("strings_offset", "read_string_f", "s"),
       Then(Push("strings", "s"), 3),
       RetV("strings") >>

\* the closure of lines 738-748: the string table
NxfObjGeom_strings_f ==
    << Set("strings", <<>>), Set("_i", 0),                    \* 1-2
       For("_i", "num_strings", 7),                           \* 3
       U32("string_offset"),                                  \* 4
       AtOffset("string_offset", "read_string_f", "s"),       \* 5
       Then(Push("strings", "s"), 3),                         \* 6
       RetV("strings") >>                                     \* 7

\* |read| { NxfArray::from_read(read) }   (lines 754-756)
NxfObjGeom_arrays_f == << Call("NxfArray_from_read", EmptyLoc, "r"), RetV("r") >>

NxfObjGeomFields ==
    << "id", "endian", "version", "flags", "alpha_mode", "env_map_alpha_mode",
       "strings", "materials", "arrays", "facelist_sets",
       "display_list", "display_list_size" >>

\* from_read that decodes the vertex-array block before the material chain
NxfObjGeom_from_read_arrays_first ==
    << Bytes(4, "id"), U32("endian"), F32("version"), U32("flags"),
       U32("alpha_mode"), U32("env_map_alpha_mode"),
       U16("num_strings"), U16("_pad"),
       U32("strings_offset"),
       AtOffset("strings_offset", "NxfObjGeom_strings_f", "strings"),
       U32("arrays_offset"),
       AtOffset("arrays_offset", "NxfObjGeom_arrays_f", "arrays"),
       U32("material_offset"),
       Call("NxfMaterial_list_from_read", [offset |-> "material_offset"], "materials"),
       U32("first_facelist_set"),
       Call("NxfFacelistSet_list_from_read", [offset |-> "first_facelist_set"],
            "facelist_sets"),
       U32("display_list"), U32("display_list_size"),
       U32("_expanded"), U32("_pad1"), U32("_pad2"), U32("_pad3"),
       Ret("NxfObjGeom", NxfObjGeomFields) >>

\* NxfObjGeom::from_read
NxfObjGeom_from_read ==
    << Bytes(4, "id"), U32("endian"), F32("version"), U32("flags"),
       U32("alpha_mode"), U32("env_map_alpha_mode"),
       U16("num_strings"), U16("_pad"),
       U32("strings_offset"),
       AtOffset("strings_offset", "NxfObjGeom_strings_f", "strings"),
       U32("material_offset"),
       Call("NxfMaterial_list_from_read", [offset |-> "material_offset"], "materials"),
       U32("arrays_offset"),
       AtOffset("arrays_offset", "NxfObjGeom_arrays_f", "arrays"),
       U32("first_facelist_set"),
       Call("NxfFacelistSet_list_from_read", [offset |-> "first_facelist_set"],
            "facelist_sets"),
       U32("display_list"), U32("display_list_size"),
       U32("_expanded"), U32("_pad1"), U32("_pad2"), U32("_pad3"),
       Ret("NxfObjGeom", NxfObjGeomFields) >>

----------------------------------------------------------------------------
(* The functions of src/sf/src/lib.rs: the scene-placement format.         *)

\* read_exact(&mut v) into a Vec of l bytes
BytesVec(l, d) == [op |-> "rdvec", len |-> l, dst |-> d]
\* let d = s.iter().position(|x| *x == 0).unwrap_or(0x20)
Position(s, d) == [op |-> "position", src |-> s, dst |-> d]
\* let d = String::from_utf8(s[0..l].to_owned()).unwrap()
Utf8Prefix(s, l, d) == [op |-> "from_utf8_prefix", src |-> s, len |-> l, dst |-> d]

ScenePlacementFields ==
    << "model_name", "geom_name", "x_pos", "y_pos", "z_pos", "w_pos",
       "x_rot", "y_rot", "z_rot", "w_rot",
       "x_scale", "y_scale", "z_scale", "w_scale", "data" >>

\* from_read with a model-name buffer of 0x1F bytes
ScenePlacement_from_read_short_name ==
    << U32("main_type"), U32("sub_type"),
       Bytes(31, "model_name_bytes"),
       Position("model_name_bytes", "model_name_len"),
       Utf8Prefix("model_name_bytes", "model_name_len", "model_name"),
       Bytes(32, "geom_name_bytes"),
       Position("geom_name_bytes", "geom_name_len"),
       Utf8Prefix("geom_name_bytes", "geom_name_len", "geom_name"),
       F32("x_pos"), F32("y_pos"), F32("z_pos"), F32("w_pos"),
       F32("x_rot"), F32("y_rot"), F32("z_rot"), F32("w_rot"),
       F32("x_scale"), F32("y_scale"), F32("z_scale"), F32("w_scale"),
       U32("data_len"),
       BytesVec("data_len", "data_vec"),
       [op |-> "from_bytes", dst |-> "data"],
       Ret("ScenePlacement", ScenePlacementFields) >>

\* ScenePlacement::from_read
ScenePlacement_from_read ==
    << U32("main_type"), U32("sub_type"),
       Bytes(32, "model_name_bytes"),                      \* [0; 0x20], read_exact
       Position("model_name_bytes", "model_name_len"),
       Utf8Prefix("model_name_bytes", "model_name_len", "model_name"),
       Bytes(32, "geom_name_bytes"),
       Position("geom_name_bytes", "geom_name_len"),
       Utf8Prefix("geom_name_bytes", "geom_name_len", "geom_name"),
       F32("x_pos"), F32("y_pos"), F32("z_pos"), F32("w_pos"),
       F32("x_rot"), F32("y_rot"), F32("z_rot"), F32("w_rot"),
       F32("x_scale"), F32("y_scale"), F32("z_scale"), F32("w_scale"),
       U32("data_len"),
       BytesVec("data_len", "data_vec"),                   \* read_exact(&mut data_vec)?
       [op |-> "from_bytes", dst |-> "data"],              \* from_bytes(main_type, sub_type, data_vec)?
       Ret("ScenePlacement", ScenePlacementFields) >>

\* SceneClump::from_read
SceneClump_from_read ==
    << U16("num_placements"), U16("_pad"),                               \* 1-2
       F32("min_x"), F32("max_x"), F32("min_z"), F32("max_z"),           \* 3-6
       Set("placements", <<>>), Set("_i", 0),                            \* 7-8
       For("_i", "num_placements", 12),                                  \* 9
       Call("ScenePlacement_from_read", EmptyLoc, "placement"),          \* 10
       Then(Push("placements", "placement"), 9),                         \* 11
       Ret("SceneClump",
           <<"min_x", "max_x", "min_z", "max_z", "placements">>) >>      \* 12

\* SceneTemplate::from_read
SceneTemplate_from_read ==
    << U32("header"), U32("format"), F32("version"),                     \* 1-3
       Bytes(32, "name_bytes"),                                          \* 4
       Position("name_bytes", "name_len"),                               \* 5
       Utf8Prefix("name_bytes", "name_len", "name"),                     \* 6
       F32("x_cut_size"), F32("z_cut_size"),                             \* 7-8
       F32("min_x"), F32("max_x"), F32("min_z"), F32("max_z"),           \* 9-12
       U16("num_clumps"), U16("_pad"),                                   \* 13-14
       Set("clumps", <<>>), Set("_i", 0),                                \* 15-16
       For("_i", "num_clumps", 24),                                      \* 17
       U32("offset"),                                                    \* 18
       SeekCur("save"),                                                  \* 19
       SeekStart("offset"),                                              \* 20
       Call("SceneClump_from_read", EmptyLoc, "clump"),                  \* 21
       Push("clumps", "clump"),                                          \* 22
       Then(SeekStart("save"), 17),                                      \* 23
       Ret("SceneTemplate",
           <<"header", "format", "version", "name", "x_cut_size", "z_cut_size",
             "min_x", "max_x", "min_z", "max_z", "clumps">>) >>          \* 24

\* SceneGeomFormat::from_u32
SceneGeomFormat_from_u32(val) ==
    CASE val = 1 -> "Imf" [] val = 2 -> "Hmf" [] val = 3 -> "Hxf" [] val = 4 -> "Hxf2"
      [] val = 6 -> "Vu1" [] val = 7 -> "Vu1Paged" [] val = 8 -> "Ixf"
      [] val = 9 -> "Nxf" [] OTHER -> "Unknown"

\* the variant ScenePlacementData::from_bytes builds for a main type
PlacementVariant(main_type) ==
    CASE main_type = 0 -> "Static" [] main_type = 1 -> "StaticInst"
      [] main_type = 4 -> "Ground" [] main_type = 5 -> "GroundVU1"
      [] main_type = 6 -> "Point" [] main_type = 7 -> "DirLight"
      [] main_type = 8 -> "AmbientLight" [] main_type = 9 -> "Camera"
      [] main_type = 13 -> "BoundingBox" [] main_type = 20 -> "Sky"
      [] main_type = 22 -> "Bezier" [] main_type = 25 -> "ColCylinder"
      [] OTHER -> "Unknown"

\* the 32-bit values from_bytes reads from the data of a main type, in order
PlacementWords(main_type) ==
    CASE main_type \in {7, 8} -> <<"r", "g", "b">>
      [] main_type = 9 -> <<"interest_x", "interest_y", "interest_z", "field_of_view">>
      [] main_type \in {13, 25} ->
            <<"min.0", "min.1", "min.2", "min.3", "max.0", "max.1", "max.2", "max.3">>
      [] main_type = 22 ->
            <<"length", "degree", "closed", "param_type", "nb_knots",
              "nb_control_points", "control_points", "knots", "curve_points",
              "true_length", "pad.0", "pad.1", "pad.2", "pad.3", "pad.4">>
      [] OTHER -> <<>>

\* from_bytes that takes the values its data does not hold as 0
ScenePlacementData_from_bytes_padded(main_type, sub_type, data) ==
    LET words == PlacementWords(main_type)
        variant == PlacementVariant(main_type)
        padded == data \o [i \in 1..(4 * Len(words)) |-> 0]
    IN  [ok |-> TRUE,
         value |->
            IF main_type \in {0, 1, 4, 5, 20}
            THEN [ctor |-> variant, format |-> SceneGeomFormat_from_u32(sub_type)]
            ELSE IF main_type = 6 THEN [ctor |-> variant, sub_type |-> sub_type]
            ELSE IF variant = "Unknown"
            THEN [ctor |-> variant, main_type |-> main_type,
                  sub_type |-> sub_type, data |-> data]
            ELSE [ctor |-> variant, sub_type |-> sub_type,
                  fields |-> [j \in 1..Len(words) |->
                                 <<words[j],
                                   BEValue(SubSeq(padded, 4 * j - 3, 4 * j))>>]]]

\* ScenePlacementData::from_bytes(main_type, sub_type, data): reads from the
\* slice `data`; a read past its end is Err(UnexpectedEof)
ScenePlacementData_from_bytes(main_type, sub_type, data) ==
    LET words == PlacementWords(main_type)
        variant == PlacementVariant(main_type)
    IN  IF Len(data) < 4 * Len(words) THEN [ok |-> FALSE]
        ELSE [ok |-> TRUE,
              value |->
                 IF main_type \in {0, 1, 4, 5, 20}
                 THEN [ctor |-> variant, format |-> SceneGeomFormat_from_u32(sub_type)]
                 ELSE IF main_type = 6 THEN [ctor |-> variant, sub_type |-> sub_type]
                 ELSE IF variant = "Unknown"
                 THEN [ctor |-> variant, main_type |-> main_type,
                       sub_type |-> sub_type, data |-> data]
                 ELSE [ctor |-> variant, sub_type |-> sub_type,
                       fields |-> [j \in 1..Len(words) |->
                                      <<words[j],
                                        BEValue(SubSeq(data, 4 * j - 3, 4 * j))>>]]]

RECURSIVE Concat(_)
\* the sequences of ss one after the other
Concat(ss) == IF ss = <<>> THEN <<>> ELSE ss[1] \o Concat(Tail(ss))

----------------------------------------------------------------------------
(* The COLLADA writers of src/pmw2_collada/src.  A writer function is the   *)
(* sequence of `self.writer.write(event)?` statements it executes for the   *)
(* model it holds, in the order of the source: a `for` contributes the      *)
(* statements of its body once per element, a `match` those of the arm      *)
(* taken.  An event is <<kind, what>>.                                      *)

start_element(name) == <<"start", name>>     \* XmlEvent::start_element(name)
end_element == <<"end", "">>                 \* XmlEvent::end_element()
characters(what) == <<"text", what>>         \* write(&str)
unimplemented == <<"unimplemented", "">>     \* unimplemented!()

\* Nxf2Collada::write_start
Nxf2Collada_write_start ==
    << start_element("COLLADA"), start_element("asset"),
       start_element("created"), characters("date"), end_element,
       start_element("modified"), characters("date"), end_element,
       end_element >>

\* Nxf2Collada::write_library_effects
Nxf2Collada_write_library_effects(nxf) ==
    << start_element("library_effects") >>
    \o Concat([m \in 1..Len(nxf.materials) |->
        << start_element("effect"), start_element("profile_COMMON"),
           start_element("technique"),
           start_element("newparam"), start_element("surface"),
           start_element("init_from"), characters("tex_name_image"),
           end_element, end_element, end_element,
           start_element("newparam"), start_element("sampler2D"),
           start_element("source"), characters("tex_name_surface"),
           end_element, end_element, end_element,
           start_element("lambert"), start_element("diffuse"),
           start_element("texture"),
           end_element, end_element, end_element,
           end_element, end_element, end_element >>])
    \o << end_element >>

\* Nxf2Collada::write_library_images
Nxf2Collada_write_library_images(nxf) ==
    << start_element("library_images") >>
    \o Concat([m \in 1..Len(nxf.materials) |->
        << start_element("image"), start_element("init_from"),
           characters("tex_name_png"), end_element, end_element >>])
    \o << end_element >>

\* Nxf2Collada::write_library_materials
Nxf2Collada_write_library_materials(nxf) ==
    << start_element("library_materials") >>
    \o Concat([m \in 1..Len(nxf.materials) |->
        << start_element("material"), start_element("instance_effect"),
           end_element, end_element >>])
    \o << end_element >>

\* one <source> of write_library_geometries: a float_array and an accessor
\* with n params
GeometrySource(data, n) ==
    << start_element("source"), start_element("float_array"),
       characters(data), end_element,
       start_element("technique_common"), start_element("accessor") >>
    \o Concat([i \in 1..n |-> << start_element("param"), end_element >>])
    \o << end_element, end_element, end_element >>

\* Triangles with the arm of ColLitTri written like that of ColUnlitTri
Triangles_lit_written(facelist) ==
    << start_element("triangles"),
       start_element("input"), end_element,
       start_element("input"), end_element >>
    \o (CASE facelist.faces.ctor = "TexUnlitTri" ->
                << start_element("input"), end_element,
                   start_element("p"), characters("face_data"), end_element,
                   end_element >>
          [] facelist.faces.ctor \in {"ColUnlitTri", "ColLitTri"} ->
                << start_element("p"), characters("face_data"), end_element,
                   end_element >>
          [] OTHER -> << unimplemented >>)

\* the statements of write_library_geometries for one facelist
Triangles(facelist) ==
    << start_element("triangles"),
       start_element("input"), end_element,
       start_element("input"), end_element >>
    \o (CASE facelist.faces.ctor = "TexUnlitTri" ->
                << start_element("input"), end_element,
                   start_element("p"), characters("face_data"), end_element,
                   end_element >>
          [] facelist.faces.ctor = "ColUnlitTri" ->
                << start_element("p"), characters("face_data"), end_element,
                   end_element >>
          [] OTHER -> << unimplemented >>)

\* Nxf2Collada::write_library_geometries
Nxf2Collada_write_library_geometries(nxf) ==
    << start_element("library_geometries"), start_element("geometry"),
       start_element("mesh") >>
    \o GeometrySource("vertex_data", 3)
    \o GeometrySource("color_data", 4)
    \o (IF Len(nxf.arrays.uvs) # 0 THEN GeometrySource("uv_data", 2) ELSE <<>>)
    \o << start_element("vertices"), start_element("input"),
          end_element, end_element >>
    \o Concat([s \in 1..Len(nxf.facelist_sets) |->
          Concat([f \in 1..Len(nxf.facelist_sets[s].facelists) |->
              Triangles(nxf.facelist_sets[s].facelists[f])])])
    \o << end_element, end_element, end_element >>

\* write_library_nodes that leaves the bind_material of each material open
Nxf2Collada_write_library_nodes_unclosed(nxf) ==
    << start_element("library_nodes"), start_element("node"),
       start_element("instance_geometry") >>
    \o Concat([m \in 1..Len(nxf.materials) |->
        << start_element("bind_material"), start_element("technique_common"),
           start_element("instance_material"), start_element("bind_vertex_input"),
           end_element, end_element, end_element >>])
    \o << end_element, end_element, end_element >>

\* Nxf2Collada::write_library_nodes
Nxf2Collada_write_library_nodes(nxf) ==
    << start_element("library_nodes"), start_element("node"),
       start_element("instance_geometry") >>
    \o Concat([m \in 1..Len(nxf.materials) |->
        << start_element("bind_material"), start_element("technique_common"),
           start_element("instance_material"), start_element("bind_vertex_input"),
           end_element, end_element, end_element, end_element >>])
    \o << end_element, end_element, end_element >>

\* Nxf2Collada::write_library_visual_scenes
Nxf2Collada_write_library_visual_scenes ==
    << start_element("library_visual_scenes"), start_element("visual_scene"),
       start_element("node"), start_element("instance_node"),
       end_element, end_element, end_element, end_element >>

\* Nxf2Collada::write_scene
Nxf2Collada_write_scene ==
    << start_element("scene"), start_element("instance_visual_scene"),
       end_element, end_element >>

\* Nxf2Collada::write_end
Nxf2Collada_write_end == << end_element >>

\* Sf2Collada::write_start
Sf2Collada_write_start ==
    << start_element("COLLADA"), start_element("asset"),
       start_element("created"), characters("date"), end_element,
       start_element("modified"), characters("date"), end_element,
       end_element >>

\* Sf2Collada::write_end
Sf2Collada_write_end == << end_element >>

\* the placements of a scene template, clump after clump
PlacementsOf(sf) ==
    Concat([c \in 1..Len(sf.clumps) |-> sf.clumps[c].placements])

\* Sf2Collada::write_library_nodes
Sf2Collada_write_library_nodes(sf) ==
    << start_element("library_nodes"), start_element("node") >>
    \o Concat([q \in 1..Len(PlacementsOf(sf)) |->
          CASE PlacementsOf(sf)[q].data.ctor = "Point" ->
                  << start_element("node"),
                     start_element("translate"), characters("pos"), end_element,
                     start_element("instance_geometry"), end_element,
                     end_element >>
            [] PlacementsOf(sf)[q].data.ctor = "BoundingBox" ->
                  << start_element("node"),
                     start_element("matrix"), characters("mat"), end_element,
                     start_element("instance_geometry"), end_element,
                     end_element >>
            [] OTHER -> <<>>])
    \o << end_element, end_element >>

\* Sf2Collada::write_library_visual_scenes
Sf2Collada_write_library_visual_scenes(sf) ==
    << start_element("library_visual_scenes"), start_element("visual_scene"),
       start_element("node"), start_element("instance_node"),
       end_element, end_element >>
    \o Concat([q \in 1..Len(PlacementsOf(sf)) |->
          LET data == PlacementsOf(sf)[q].data
          IN  IF /\ data.ctor \in {"Static", "StaticInst", "Ground", "GroundVU1", "Sky"}
                 /\ data.format = "Nxf"
              THEN << start_element("node"),
                      start_element("translate"), characters("pos"), end_element,
                      start_element("instance_node"), end_element,
                      end_element >>
              ELSE <<>>])
    \o << end_element, end_element >>

\* the write statements a writer function executes, by name
Events(fn, self) ==
    CASE fn = "Nxf2Collada_write_start" -> Nxf2Collada_write_start
      [] fn = "Sf2Collada_write_start" -> Sf2Collada_write_start
      [] fn = "Nxf2Collada_write_library_effects" ->
              Nxf2Collada_write_library_effects(self.nxf)
      [] fn = "Nxf2Collada_write_library_images" ->
              Nxf2Collada_write_library_images(self.nxf)
      [] fn = "Nxf2Collada_write_library_materials" ->
              Nxf2Collada_write_library_materials(self.nxf)
      [] fn = "Nxf2Collada_write_library_geometries" ->
              Nxf2Collada_write_library_geometries(self.nxf)
      [] fn = "Nxf2Collada_write_library_nodes" ->
              Nxf2Collada_write_library_nodes(self.nxf)
      [] fn = "Nxf2Collada_write_library_visual_scenes" ->
              Nxf2Collada_write_library_visual_scenes
      [] fn = "Nxf2Collada_write_scene" -> Nxf2Collada_write_scene
      [] fn = "Nxf2Collada_write_end" -> Nxf2Collada_write_end
      [] fn = "Sf2Collada_write_end" -> Sf2Collada_write_end
      [] fn = "Sf2Collada_write_library_nodes" ->
              Sf2Collada_write_library_nodes(self.sf)
      [] fn = "Sf2Collada_write_library_visual_scenes" ->
              Sf2Collada_write_library_visual_scenes(self.sf)

WriterFns ==
    {"Nxf2Collada_write_start", "Nxf2Collada_write_library_effects",
     "Nxf2Collada_write_library_images", "Nxf2Collada_write_library_materials",
     "Nxf2Collada_write_library_geometries", "Nxf2Collada_write_library_nodes",
     "Nxf2Collada_write_library_visual_scenes", "Nxf2Collada_write_scene",
     "Nxf2Collada_write_end", "Sf2Collada_write_start",
     "Sf2Collada_write_library_nodes", "Sf2Collada_write_library_visual_scenes",
     "Sf2Collada_write_end"}

\* a writer function: its write statements one after the other, then Ok(())
WriterBody ==
    << Set("_n", 0), [op |-> "write"], Set("unit", "()"), RetV("unit") >>

\* self.f()?
CallSelf(fn, self) == Call(fn, (self :> self), "unit")

\* Nxf2Collada::write_collada
Nxf2Collada_write_collada ==
    << CallSelf("Nxf2Collada_write_start", "nxf"),
       CallSelf("Nxf2Collada_write_library_effects", "nxf"),
       CallSelf("Nxf2Collada_write_library_images", "nxf"),
       CallSelf("Nxf2Collada_write_library_materials", "nxf"),
       CallSelf("Nxf2Collada_write_library_geometries", "nxf"),
       CallSelf("Nxf2Collada_write_library_nodes", "nxf"),
       CallSelf("Nxf2Collada_write_library_visual_scenes", "nxf"),
       CallSelf("Nxf2Collada_write_scene", "nxf"),
       CallSelf("Nxf2Collada_write_end", "nxf"),
       RetV("unit") >>

\* Sf2Collada::write_collada
Sf2Collada_write_collada ==
    << CallSelf("Sf2Collada_write_start", "sf"),
       CallSelf("Sf2Collada_write_library_nodes", "sf"),
       CallSelf("Sf2Collada_write_library_visual_scenes", "sf"),
       CallSelf("Sf2Collada_write_end", "sf"),
       RetV("unit") >>

----------------------------------------------------------------------------
(* The command-line front end, src/pmw2_collada/src/main.rs.  What getopts  *)
(* made of the command line is the record `args`: whether it parsed, -h,    *)
(* the free arguments, and the values of --sf and --nxf (<<>> when absent). *)

\* the input options given: [opt_str("sf"), opt_str("nxf")] without the None
Operations(args) ==
    (IF args.sf = <<>> THEN <<>> ELSE <<"sf">>)
    \o (IF args.nxf = <<>> THEN <<>> ELSE <<"nxf">>)

\* the conditions main tests
Cond(c, loc) ==
    CASE c = "parse_failed" -> ~loc.args.parse_ok
      [] c = "help" -> loc.args.help
      [] c = "no_out_file" -> loc.args.free = <<>>
      [] c = "multiple" -> Len(loc.operations) > 1
      [] c = "none" -> Len(loc.operations) = 0
      [] c = "no_file_stem" -> ~loc.args.stem

HelpIf(c) == [op |-> "help_if", cond |-> c]   \* if c { print_help(..); return; }
BarfIf(c) == [op |-> "barf_if", cond |-> c]   \* if c { barf(..) }
\* f(..).unwrap(): an Err is a panic
Unwrap(call, to) == call @@ [catch |-> to]

\* main with the input decoded before the output file is created
main_decode_first ==
    << BarfIf("parse_failed"), HelpIf("help"), HelpIf("no_out_file"),
       [op |-> "operations"], BarfIf("multiple"), BarfIf("none"),
       Get("operation", "operations", 1),
       [op |-> "match", src |-> "operation",
        arms |-> ("sf" :> 9) @@ ("nxf" :> 15), other |-> 22],
       [op |-> "open"],
       Unwrap(Call("SceneTemplate_from_read", EmptyLoc, "sf"), 22),
       [op |-> "create"],
       Unwrap(Call("Sf2Collada_write_collada", ("sf" :> "sf"), "unit"), 22),
       [op |-> "println", msg |-> "Successfully converted SF file to collada."],
       RetV("unit"),
       [op |-> "open"],
       BarfIf("no_file_stem"),
       Unwrap(Call("NxfObjGeom_from_read", EmptyLoc, "nxf"), 22),
       [op |-> "create"],
       Unwrap(Call("Nxf2Collada_write_collada", ("nxf" :> "nxf"), "unit"), 22),
       [op |-> "println", msg |-> "Successfully converted NXF file to collada."],
       RetV("unit"),
       [op |-> "panic", msg |-> "called Result::unwrap() on an Err value"] >>

\* main
main ==
    << BarfIf("parse_failed"),                 \* 1  opts.parse(..).map_err(barf)
       HelpIf("help"),                         \* 2  if matches.opt_present("h")
       HelpIf("no_out_file"),                  \* 3  matches.free.is_empty()
       [op |-> "operations"],                  \* 4  let operations = ..
       BarfIf("multiple"),                     \* 5  operations.len() > 1
       BarfIf("none"),                         \* 6  operations.len() == 0
       Get("operation", "operations", 1),      \* 7  operations.into_iter().next()
       [op |-> "match", src |-> "operation",
        arms |-> ("sf" :> 9) @@ ("nxf" :> 15), other |-> 22],       \* 8
       [op |-> "open"],                        \* 9  File::open(&in_filename).unwrap()
       [op |-> "create"],                      \* 10 File::create(out_filename).unwrap()
       Unwrap(Call("SceneTemplate_from_read", EmptyLoc, "sf"), 22), \* 11
       Unwrap(Call("Sf2Collada_write_collada", ("sf" :> "sf"), "unit"), 22),  \* 12
       [op |-> "println", msg |-> "Successfully converted SF file to collada."],
       RetV("unit"),                           \* 14
       [op |-> "open"],                        \* 15
       [op |-> "create"],                      \* 16
       BarfIf("no_file_stem"),                 \* 17 .unwrap_or_else(|| barf(..))
       Unwrap(Call("NxfObjGeom_from_read", EmptyLoc, "nxf"), 22),   \* 18
       Unwrap(Call("Nxf2Collada_write_collada", ("nxf" :> "nxf"), "unit"), 22), \* 19
       [op |-> "println", msg |-> "Successfully converted NXF file to collada."],
       RetV("unit"),                           \* 21
       [op |-> "panic", msg |-> "called Result::unwrap() on an Err value"] >>

\* the statements of a function, by name
Code(fn) ==
    CASE fn = "read_at_offset" -> read_at_offset
      [] fn = "main" -> main
      [] fn = "Nxf2Collada_write_collada" -> Nxf2Collada_write_collada
      [] fn = "Sf2Collada_write_collada" -> Sf2Collada_write_collada
      [] fn \in WriterFns -> WriterBody
      [] fn = "ScenePlacement_from_read" -> ScenePlacement_from_read
      [] fn = "SceneClump_from_read" -> SceneClump_from_read
      [] fn = "SceneTemplate_from_read" -> SceneTemplate_from_read
      [] fn = "read_string" -> read_string
      [] fn = "read_string_f" -> read_string_f
      [] fn = "NxfMaterial_from_read" -> NxfMaterial_from_read
      [] fn = "NxfMaterial_list_from_read" -> NxfMaterial_list_from_read
      [] fn = "Vec3_from_read" -> Vec3_from_read
      [] fn = "Color_from_read" -> Color_from_read
      [] fn = "Uv_from_read" -> Uv_from_read
      [] fn = "NxfArray_verts_f" -> NxfArray_verts_f
      [] fn = "NxfArray_normals_f" -> NxfArray_normals_f
      [] fn = "NxfArray_colors_f" -> NxfArray_colors_f
      [] fn = "NxfArray_uvs_f" -> NxfArray_uvs_f
      [] fn = "NxfArray_from_read" -> NxfArray_from_read
      [] fn = "NxfColLitTri_from_read" -> NxfColLitTri_from_read
      [] fn = "NxfTexLitTri_from_read" -> NxfTexLitTri_from_read
      [] fn = "NxfTexUnlitTri_from_read" -> NxfTexUnlitTri_from_read
      [] fn = "NxfColUnlitTri_from_read" -> NxfColUnlitTri_from_read
      [] fn = "NxfTexLitEnvTri_from_read" -> NxfTexLitEnvTri_from_read
      [] fn = "NxfColLitEnvTri_from_read" -> NxfColLitEnvTri_from_read
      [] fn = "NxfFaces_from_read" -> NxfFaces_from_read
      [] fn = "NxfFacelist_material_f" -> NxfFacelist_material_f
      [] fn = "NxfFacelist_faces_f" -> NxfFacelist_faces_f
      [] fn = "NxfFacelist_from_read" -> NxfFacelist_from_read
      [] fn = "NxfFacelist_list_from_read" -> NxfFacelist_list_from_read
      [] fn = "NxfFacelistSet_from_read" -> NxfFacelistSet_from_read
      [] fn = "NxfFacelistSet_list_from_read" -> NxfFacelistSet_list_from_read
      [] fn = "NxfObjGeom_strings_f" -> NxfObjGeom_strings_f
      [] fn = "NxfObjGeom_arrays_f" -> NxfObjGeom_arrays_f
      [] fn = "NxfObjGeom_from_read" -> NxfObjGeom_from_read

\* the three chain decoders
ListFns ==
    {"NxfMaterial_list_from_read", "NxfFacelist_list_from_read",
     "NxfFacelistSet_list_from_read"}

----------------------------------------------------------------------------
(* Execution: one action per kind of statement.                            *)

Top == stack[Len(stack)]
Ins == Code(Top.fn)[Top.pc]
Running == status = "run" /\ stack # <<>>

\* where an instruction continues
NextPc(ins, pc) == IF "next" \in DOMAIN ins THEN ins.next ELSE pc + 1

\* the stack with the top frame at pc and with locals loc
Goto(pc, loc) ==
    [stack EXCEPT ![Len(stack)] = [@ EXCEPT !.pc = pc, !.loc = loc]]

Bind(v, x) == (v :> x) @@ Top.loc
Step(loc) == Goto(NextPc(Ins, Top.pc), loc)

\* a new frame; pos0 and t0 remember the cursor and the log length at entry
Frame(fn, loc) ==
    [fn |-> fn, pc |-> 1, loc |-> loc, pos0 |-> pos, t0 |-> Len(log)]

Logged(kind, a, b) == Append(log, <<kind, a, b, Top.fn>>)

\* `?` on a failed seek or read: an Err starts travelling up
Fail(kind) ==
    /\ status' = "unwind"
    /\ result' = << [ctor |-> "Err", kind |-> kind] >>
    /\ UNCHANGED stack

\* read_u8 / read_u16 / read_u32 / read_f32 / read_exact
ReadExact ==
    /\ Running /\ Ins.op = "rd"
    /\ LET r == read_exact(file, pos, Ins.n)
       IN  /\ pos' = r.pos
           /\ IF r.ok
              THEN /\ stack' = Step(Bind(Ins.dst, IF Ins.raw THEN r.bytes
                                                   ELSE BEValue(r.bytes)))
                   /\ log' = Logged("read", pos, Ins.n)
                   /\ UNCHANGED <<status, result>>
              ELSE /\ Fail("UnexpectedEof")
                   /\ log' = Logged("short", pos, Ins.n)
    /\ UNCHANGED file

\* seek(SeekFrom::Current(0)): the cursor, which does not move
SeekCurrent ==
    /\ Running /\ Ins.op = "seekcur"
    /\ stack' = Step(Bind(Ins.dst, pos))
    /\ log' = Logged("tell", pos, 0)
    /\ UNCHANGED <<file, pos, status, result>>

\* seek(SeekFrom::Start(o)): a File accepts any offset, also past its end
SeekFromStart ==
    /\ Running /\ Ins.op = "seek"
    /\ pos' = Top.loc[Ins.src]
    /\ stack' = Step(Top.loc)
    /\ log' = Logged("seek", Top.loc[Ins.src], 0)
    /\ UNCHANGED <<file, status, result>>

\* Bytes::next(): Some(Ok(byte)), or None at the end of the source
NextByte ==
    /\ Running /\ Ins.op = "byte"
    /\ IF pos < Len(file)
       THEN /\ pos' = pos + 1
            /\ stack' = Step(Bind(Ins.dst, file[pos + 1]))
            /\ log' = Logged("read", pos, 1)
       ELSE /\ pos' = pos
            /\ stack' = Goto(Ins.eof, Top.loc)
            /\ log' = Logged("eof", pos, 0)
    /\ UNCHANGED <<file, status, result>>

\* any seek, read or write may fail with an error of the operating system
IoError ==
    /\ Running /\ Ins.op \in {"rd", "rdvec", "seek", "seekcur", "byte", "write"}
    /\ Ins.op = "write" => Events(Top.fn, Top.loc)[Top.loc._n + 1][1] # "unimplemented"
    /\ Fail("Other")
    /\ log' = Logged("ioerr", pos, 0)
    /\ UNCHANGED <<file, pos>>

\* a call of a function, or of read_at_offset with a closure and what it captures
CallFn ==
    /\ Running /\ Ins.op = "call"
    /\ LET args == [p \in DOMAIN Ins.args |-> Top.loc[Ins.args[p]]]
           clos == IF "f" \in DOMAIN Ins
                   THEN [f |-> Ins.f, env |-> Top.loc] ELSE EmptyLoc
       IN  stack' = Append(stack, Frame(Ins.fn, args @@ clos))
    /\ UNCHANGED <<file, pos, status, result, log>>

\* f(self): the closure runs over the variables it captured
CallClosure ==
    /\ Running /\ Ins.op = "callf"
    /\ stack' = Append(stack, Frame(Top.loc.f, Top.loc.env))
    /\ UNCHANGED <<file, pos, status, result, log>>

\* Ok(v): the value goes to the caller, or ends the decode
Returned(v) ==
    IF Len(stack) = 1
    THEN /\ stack' = <<>>
         /\ status' = "ok"
         /\ result' = <<v>>
    ELSE LET k == Len(stack) - 1
             caller == stack[k]
             cins == Code(caller.fn)[caller.pc]
         IN  /\ stack' = [SubSeq(stack, 1, k) EXCEPT ![k] =
                             [@ EXCEPT !.pc = NextPc(cins, caller.pc),
                                       !.loc = (cins.dst :> v) @@ caller.loc]]
             /\ UNCHANGED <<status, result>>

ReturnValue ==
    /\ Running /\ Ins.op = "retv"
    /\ Returned(Top.loc[Ins.src])
    /\ UNCHANGED <<file, pos, log>>

ReturnStruct ==
    /\ Running /\ Ins.op = "ret"
    /\ Returned([ctor |-> Ins.ctor]
                @@ [i \in {Ins.fields[j] : j \in 1..Len(Ins.fields)} |-> Top.loc[i]])
    /\ UNCHANGED <<file, pos, log>>

Assign ==
    /\ Running /\ Ins.op = "set"
    /\ stack' = Step(Bind(Ins.dst, Ins.val))
    /\ UNCHANGED <<file, pos, status, result, log>>

\* Vec::push.  A Vec grows as long as memory lasts; the model follows a chain
\* decoder up to MaxWalk records
VecPush ==
    /\ Running /\ Ins.op = "push"
    /\ Top.fn \in ListFns => Len(Top.loc[Ins.dst]) < MaxWalk
    /\ stack' = Step(Bind(Ins.dst, Append(Top.loc[Ins.dst], Top.loc[Ins.src])))
    /\ UNCHANGED <<file, pos, status, result, log>>

FieldGet ==
    /\ Running /\ Ins.op = "get"
    /\ stack' = Step(Bind(Ins.dst, Top.loc[Ins.src][Ins.field]))
    /\ UNCHANGED <<file, pos, status, result, log>>

\* `while x != 0`, `if x != 0`, `if byte == 0 { break }`
BranchZero ==
    /\ Running /\ Ins.op = "brz"
    /\ stack' = IF Top.loc[Ins.src] = 0 THEN Goto(Ins.to, Top.loc)
                ELSE Step(Top.loc)
    /\ UNCHANGED <<file, pos, status, result, log>>

\* `for _ in 0..n`
ForNext ==
    /\ Running /\ Ins.op = "for"
    /\ stack' = IF Top.loc[Ins.i] < Top.loc[Ins.n]
                THEN Step(Bind(Ins.i, Top.loc[Ins.i] + 1))
                ELSE Goto(Ins.to, Top.loc)
    /\ UNCHANGED <<file, pos, status, result, log>>

\* `match x { 6 => .., _ => .. }`
Match ==
    /\ Running /\ Ins.op = "match"
    /\ LET x == Top.loc[Ins.src]
       IN  stack' = Goto(IF x \in DOMAIN Ins.arms THEN Ins.arms[x] ELSE Ins.other,
                         Top.loc)
    /\ UNCHANGED <<file, pos, status, result, log>>

\* panic!(..): the thread unwinds, no value and no Err reaches the caller
Panic ==
    /\ Running /\ Ins.op = "panic"
    /\ status' = "panic"
    /\ result' = << [ctor |-> "Panic", msg |-> Ins.msg] >>
    /\ UNCHANGED <<file, pos, stack, log>>

\* String::from_utf8(buffer).unwrap()
FromUtf8Unwrap ==
    /\ Running /\ Ins.op = "from_utf8"
    /\ LET cps == Utf8Decode(Top.loc[Ins.src])
       IN  IF cps = <<-1>>
           THEN /\ status' = "panic"
                /\ result' = << [ctor |-> "Panic", msg |-> "FromUtf8Error"] >>
                /\ UNCHANGED stack
           ELSE /\ stack' = Step(Bind(Ins.dst, cps))
                /\ UNCHANGED <<status, result>>
    /\ UNCHANGED <<file, pos, log>>

\* the frames an Err passes: every call site is `call(..)?`, so every frame
\* returns the Err at once; a frame whose call names a `catch` would keep it
Catching(k) == "catch" \in DOMAIN Code(stack[k].fn)[stack[k].pc]

Propagate ==
    /\ status = "unwind"
    /\ LET ks == {k \in 1..Len(stack) : Catching(k)}
       IN  IF ks = {}
           THEN /\ stack' = <<>>
                /\ status' = "err"
                /\ UNCHANGED result
           ELSE LET k == CHOOSE x \in ks : \A y \in ks : y <= x
                IN  /\ stack' = [SubSeq(stack, 1, k) EXCEPT ![k] =
                                    [@ EXCEPT !.pc = Code(stack[k].fn)[stack[k].pc].catch]]
                    /\ status' = "run"
                    /\ result' = <<>>
    /\ UNCHANGED <<file, pos, log>>

\* read_exact(&mut data_vec) on a Vec of data_len bytes
ReadExactVec ==
    /\ Running /\ Ins.op = "rdvec"
    /\ LET n == Top.loc[Ins.len]
           r == read_exact(file, pos, n)
       IN  /\ pos' = r.pos
           /\ IF r.ok
              THEN /\ stack' = Step(Bind(Ins.dst, r.bytes))
                   /\ log' = Logged("read", pos, n)
                   /\ UNCHANGED <<status, result>>
              ELSE /\ Fail("UnexpectedEof")
                   /\ log' = Logged("short", pos, n)
    /\ UNCHANGED file

\* bytes.iter().position(|x| *x == 0).unwrap_or(0x20): the index, from 0,
\* of the first zero byte of the buffer, 32 when it has none
FirstZeroIn(bs) ==
    LET zs == {i \in 1..Len(bs) : bs[i] = 0}
    IN  IF zs = {} THEN 32 ELSE (CHOOSE i \in zs : \A j \in zs : i <= j) - 1

PositionOfZero ==
    /\ Running /\ Ins.op = "position"
    /\ stack' = Step(Bind(Ins.dst, FirstZeroIn(Top.loc[Ins.src])))
    /\ UNCHANGED <<file, pos, status, result, log>>

\* String::from_utf8(bytes[0..len].to_owned()).unwrap()
FromUtf8PrefixUnwrap ==
    /\ Running /\ Ins.op = "from_utf8_prefix"
    /\ LET cps == Utf8Decode(SubSeq(Top.loc[Ins.src], 1, Top.loc[Ins.len]))
       IN  IF cps = <<-1>>
           THEN /\ status' = "panic"
                /\ result' = << [ctor |-> "Panic", msg |-> "FromUtf8Error"] >>
                /\ UNCHANGED stack
           ELSE /\ stack' = Step(Bind(Ins.dst, cps))
                /\ UNCHANGED <<status, result>>
    /\ UNCHANGED <<file, pos, log>>

\* ScenePlacementData::from_bytes(main_type, sub_type, data_vec)?
FromBytes ==
    /\ Running /\ Ins.op = "from_bytes"
    /\ LET r == ScenePlacementData_from_bytes(Top.loc.main_type, Top.loc.sub_type,
                                              Top.loc.data_vec)
       IN  IF r.ok
           THEN /\ stack' = Step(Bind(Ins.dst, r.value))
                /\ UNCHANGED <<status, result>>
           ELSE Fail("UnexpectedEof")
    /\ UNCHANGED <<file, pos, log>>

----------------------------------------------------------------------------
(* The steps of the writers and of main.  A write event is logged as       *)
(* <<kind, name, the elements open after it, function>>.                    *)

\* the element names the EventWriter holds: those started and not yet ended
OpenElements ==
    IF log # <<>> /\ log[Len(log)][1] \in {"start", "end", "text"}
    THEN log[Len(log)][3] ELSE <<>>

\* self.writer.write(event)?: a start element is pushed, end_element() ends
\* the element started last and is an error when there is none
WriterWrite ==
    /\ Running /\ Ins.op = "write"
    /\ LET evs == Events(Top.fn, Top.loc)
           n == Top.loc._n
           e == evs[n + 1]
           open == OpenElements
       IN  /\ e[1] # "unimplemented"
           /\ IF e[1] = "end" /\ open = <<>>
              THEN /\ Fail("LastElementNameNotAvailable")
                   /\ UNCHANGED log
              ELSE /\ log' = CASE e[1] = "start" -> Logged("start", e[2], Append(open, e[2]))
                               [] e[1] = "end" ->
                                     Logged("end", open[Len(open)],
                                            SubSeq(open, 1, Len(open) - 1))
                               [] OTHER -> Logged("text", e[2], open)
                   /\ stack' = IF n + 1 = Len(evs) THEN Step(Bind("_n", n + 1))
                               ELSE Goto(Top.pc, Bind("_n", n + 1))
                   /\ UNCHANGED <<status, result>>
    /\ UNCHANGED <<file, pos>>

\* unimplemented!(): a panic
Unimplemented ==
    /\ Running /\ Ins.op = "write"
    /\ Events(Top.fn, Top.loc)[Top.loc._n + 1][1] = "unimplemented"
    /\ status' = "panic"
    /\ result' = << [ctor |-> "Panic", msg |-> "not implemented"] >>
    /\ UNCHANGED <<file, pos, stack, log>>

\* if c { print_help(program, opts); return; }
PrintHelpAndReturn ==
    /\ Running /\ Ins.op = "help_if"
    /\ IF Cond(Ins.cond, Top.loc)
       THEN /\ log' = Logged("print", "help", 0)
            /\ Returned("()")
       ELSE /\ stack' = Step(Top.loc)
            /\ UNCHANGED <<status, result, log>>
    /\ UNCHANGED <<file, pos>>

\* barf(msg): println!("Error: {}", msg); process::exit(-1)
barf ==
    /\ Running /\ Ins.op = "barf_if"
    /\ IF Cond(Ins.cond, Top.loc)
       THEN /\ log' = Logged("print", "Error", 0)
            /\ status' = "exit"
            /\ result' = << [ctor |-> "Exit", code |-> -1] >>
            /\ UNCHANGED stack
       ELSE /\ stack' = Step(Top.loc)
            /\ UNCHANGED <<status, result, log>>
    /\ UNCHANGED <<file, pos>>

\* let operations: Vec<Operation> = ..
CollectOperations ==
    /\ Running /\ Ins.op = "operations"
    /\ stack' = Step(Bind("operations", Operations(Top.loc.args)))
    /\ UNCHANGED <<file, pos, status, result, log>>

\* File::open(&in_filename).unwrap() and File::create(out_filename).unwrap():
\* the file is opened, or created or truncated, or the unwrap panics
OpenOrCreate ==
    /\ Running /\ Ins.op \in {"open", "create"}
    /\ IF (Ins.op = "open" /\ Top.loc.exists) \/ (Ins.op = "create" /\ Top.loc.creatable)
       THEN /\ log' = Logged(Ins.op, IF Ins.op = "open" THEN "in" ELSE "out", 0)
            /\ stack' = Step(Top.loc)
            /\ UNCHANGED <<status, result>>
       ELSE /\ status' = "panic"
            /\ result' = << [ctor |-> "Panic",
                             msg |-> "called Result::unwrap() on an Err value"] >>
            /\ UNCHANGED <<stack, log>>
    /\ UNCHANGED <<file, pos>>

\* println!(..)
PrintLine ==
    /\ Running /\ Ins.op = "println"
    /\ log' = Logged("print", Ins.msg, 0)
    /\ stack' = Step(Top.loc)
    /\ UNCHANGED <<file, pos, status, result>>

----------------------------------------------------------------------------
(* Input files.  A file is laid out section after section: root record,    *)
(* string table, strings, materials, vertex-array block and its buffers,   *)
(* facelist-sets, facelists, face blocks.  Every record is written with    *)
(* the layout its decoder reads, every pointer is an absolute offset.      *)

Tags == {6, 8, 10, 11, 20, 21}

RECURSIVE BE(_, _)
\* the n bytes of x, most significant first
BE(n, x) == IF n = 0 THEN <<>> ELSE BE(n - 1, x \div 256) \o <<x % 256>>

RECURSIVE SumTo(_, _)
SumTo(f, n) == IF n = 0 THEN 0 ELSE f[n] + SumTo(f, n - 1)

\* the bytes one triangle of a face block takes on disk, by tag: three corners
\* of 3, 4, 3, 2, 5 and 4 indices of 16 bits
Width(tag) ==
    CASE tag = 6 -> 18 [] tag = 8 -> 24 [] tag = 10 -> 18
      [] tag = 11 -> 12 [] tag = 20 -> 30 [] tag = 21 -> 24
      [] OTHER -> 12

\* a 40-byte material record i and the next-material offset that follows it
EncMaterial(i, texOff, next) ==
    BE(4, 256 + i) \o BE(4, 512 + i) \o BE(4, texOff) \o BE(4, 768 + i)
    \o <<i, 16 + i, 32 + i, 48 + i>>
    \o BE(4, 1024 + i) \o BE(4, 1280 + i) \o BE(4, 1536 + i)
    \o BE(4, 0) \o BE(4, 0) \o BE(4, next)

\* the 100-byte vertex-array block; cnt and cap = <<verts, normals, colors, uvs>>
EncArray(cnt, cap, offV, offN, offC, offU) ==
    BE(4, 5121) \o BE(4, 5122) \o BE(4, 5123) \o BE(4, cnt[4])
    \o BE(4, 5124) \o BE(4, 5125) \o BE(4, 5126) \o BE(4, cnt[2])
    \o BE(4, 5127) \o BE(4, 5128) \o BE(4, 5129) \o BE(4, 5130)
    \o BE(4, cnt[1]) \o BE(4, cnt[3])
    \o BE(4, cap[1]) \o BE(4, cap[2]) \o BE(4, cap[3]) \o BE(4, cap[4])
    \o BE(4, offV) \o BE(4, offN) \o BE(4, offC) \o BE(4, offU)
    \o BE(4, 5131) \o BE(4, 0) \o BE(4, 0)

\* n consecutive big-endian values of w bytes: base+1, base+2, ...
EncRun(w, n, base) == Concat([j \in 1..n |-> BE(w, base + j)])

\* a 20-byte facelist-set record s and the next-set offset that follows it
EncSet(s, numLists, first, palette, next) ==
    BE(4, 3072 + s) \o BE(4, 0) \o BE(4, numLists) \o BE(4, first)
    \o BE(4, palette) \o BE(4, next)

\* the 32-byte facelist record g
EncFacelist(g, tag, matOff, k, facesOff, next) ==
    BE(2, 2304 + g) \o <<tag, 64 + g>> \o BE(4, 0) \o BE(4, matOff)
    \o BE(4, k) \o BE(4, facesOff) \o BE(4, next)
    \o BE(4, 2560 + g) \o BE(4, 2816 + g)

\* a facelist of an input: its tag, its face count, its material (0: offset 0)
\* and whether it has a face block (FALSE: offset 0)
FL(tag, k, mat) == [tag |-> tag, k |-> k, mat |-> mat, faces |-> TRUE]

\* where the sections of input p lie
Layout(p) ==
    LET strLen  == [i \in 1..Len(p.strs) |-> Len(p.strs[i])]
        fls     == Concat(p.sets)
        faceLen == [g \in 1..Len(fls) |->
                       IF fls[g].faces THEN fls[g].k * Width(fls[g].tag) ELSE 0]
        strs    == 68 + 4 * Len(p.slots)
        mats    == strs + SumTo(strLen, Len(p.strs))
        arr     == mats + 44 * Len(p.mats)
        v       == arr + 100
        n       == v + 12 * p.cnt[1]
        c       == n + 12 * p.cnt[2]
        u       == c + 4 * p.cnt[3]
        sets    == u + 8 * p.cnt[4]
        flsAt   == sets + 24 * Len(p.sets)
        faces   == flsAt + 32 * Len(fls)
    IN  [ strtab |-> 68,
          str   |-> [i \in 1..Len(p.strs) |-> strs + SumTo(strLen, i - 1)],
          mat   |-> [i \in 1..Len(p.mats) |-> mats + 44 * (i - 1)],
          arr   |-> arr, v |-> v, n |-> n, c |-> c, u |-> u,
          set   |-> [x \in 1..Len(p.sets) |-> sets + 24 * (x - 1)],
          base  |-> [x \in 1..Len(p.sets) |->
                        SumTo([y \in 1..Len(p.sets) |-> Len(p.sets[y])], x - 1)],
          fl    |-> [g \in 1..Len(fls) |-> flsAt + 32 * (g - 1)],
          faces |-> [g \in 1..Len(fls) |-> faces + SumTo(faceLen, g - 1)],
          fls   |-> fls ]

At(offs, i) == IF i = 0 THEN 0 ELSE offs[i]

\* the facelist count a set declares: the length of its chain and p.extra,
\* apart (a declared count is unsigned)
Declared(n) == IF n < 0 THEN -n ELSE n

\* the bytes of input p
BuildFile(p) ==
    LET L == Layout(p)
        nsets == Len(p.sets)
        root ==
            <<78, 88, 70, 0>> \o BE(4, 16909060) \o BE(4, 1065353216)
            \o BE(4, 4097) \o BE(4, 4098) \o BE(4, 4099)
            \o BE(2, Len(p.slots)) \o BE(2, 0)
            \o BE(4, IF p.strtab THEN L.strtab ELSE 0)
            \o BE(4, IF p.chain = 0 THEN 0 ELSE L.mat[1])
            \o BE(4, IF p.arr THEN L.arr ELSE 0)
            \o BE(4, IF nsets = 0 THEN 0 ELSE L.set[1])
            \o BE(4, 4100) \o BE(4, 4101)
            \o BE(4, 0) \o BE(4, 0) \o BE(4, 0) \o BE(4, 0)
        table == Concat([i \in 1..Len(p.slots) |-> BE(4, At(L.str, p.slots[i]))])
        mats == Concat([i \in 1..Len(p.mats) |->
                    EncMaterial(i, At(L.str, p.mats[i]),
                                IF i < p.chain THEN L.mat[i + 1]
                                ELSE IF "mat" \in p.cyc THEN L.mat[1] ELSE 0)])
        arr == EncArray(p.cnt, [i \in 1..4 |-> p.cnt[i] + p.slack],
                        IF "verts" \in p.nul THEN 0 ELSE L.v,
                        IF "normals" \in p.nul THEN 0 ELSE L.n,
                        IF "colors" \in p.nul THEN 0 ELSE L.c,
                        IF "uvs" \in p.nul THEN 0 ELSE L.u)
               \o EncRun(4, 3 * p.cnt[1], 6144) \o EncRun(4, 3 * p.cnt[2], 6400)
               \o EncRun(1, 4 * p.cnt[3], 100) \o EncRun(4, 2 * p.cnt[4], 6656)
        sets == Concat([x \in 1..nsets |->
                    EncSet(x, Declared(Len(p.sets[x]) + p.extra),
                           IF p.sets[x] = <<>> THEN 0 ELSE L.fl[L.base[x] + 1],
                           p.palette,
                           IF x < nsets THEN L.set[x + 1]
                           ELSE IF "set" \in p.cyc THEN L.set[1] ELSE 0)])
        fls == Concat([x \in 1..nsets |-> Concat([j \in 1..Len(p.sets[x]) |->
                    LET g == L.base[x] + j
                        f == p.sets[x][j]
                    IN  EncFacelist(g, f.tag, At(L.mat, f.mat), f.k,
                                    IF f.faces THEN L.faces[g] ELSE 0,
                                    IF j < Len(p.sets[x]) THEN L.fl[g + 1]
                                    ELSE IF "fl" \in p.cyc THEN L.fl[L.base[x] + 1]
                                    ELSE 0)])])
        faces == Concat([g \in 1..Len(L.fls) |->
                    IF L.fls[g].faces
                    THEN EncRun(2, L.fls[g].k * (Width(L.fls[g].tag) \div 2), 256 * g)
                    ELSE <<>>])
        all == root \o table \o Concat(p.strs) \o mats \o arr \o sets \o fls \o faces
    IN  IF p.cut = 0 THEN all ELSE SubSeq(all, 1, p.cut)

\* strings of the inputs: "Foo", "", U+00E9, a byte that is no UTF-8
Foo == <<70, 111, 111, 0>>
StrEmpty == <<0>>
StrE9 == <<195, 169, 0>>
StrBad == <<70, 255, 0>>

\* the plain input: two strings, one material in the chain, one set with one
\* facelist of one colour-unlit triangle
Base ==
    [ strs |-> <<Foo, StrE9>>, slots |-> <<1, 2>>, strtab |-> TRUE,
      mats |-> <<1>>, chain |-> 1,
      arr |-> TRUE, cnt |-> <<1, 1, 1, 1>>, slack |-> 0, nul |-> {},
      sets |-> << <<FL(11, 1, 1)>> >>,
      extra |-> 0, palette |-> 0, cyc |-> {}, cut |-> 0 ]

\* one facelist of every tag (and of a tag that is none) with every face count
WithFacelist(f) == [Base EXCEPT !.sets = << <<f>> >>]
InTags == {WithFacelist(FL(t, k, 1)) : t \in Tags \cup {99}, k \in 0..MaxFaces}

\* n materials, their texture names alternating between the two strings
Mats(n) == [i \in 1..n |-> ((i - 1) % 2) + 1]

\* material chains of every length
InMaterials ==
    {[Base EXCEPT !.mats = Mats(MaxChain), !.chain = c] : c \in 0..MaxChain}

\* facelist-set chains and facelist chains of every length; the facelists
\* of a file share one material offset or alternate between two
InSets ==
    {[Base EXCEPT !.mats = Mats(2),
                  !.sets = [x \in 1..ns |-> [j \in 1..nf |->
                               FL(IF j % 2 = 1 THEN 11 ELSE 6, j % (MaxFaces + 1),
                                  IF sh THEN 1 ELSE ((x + j) % 2) + 1)]]]
        : ns \in 0..MaxChain, nf \in 0..MaxChain, sh \in BOOLEAN}

\* buffers of every declared count
InCounts == {[Base EXCEPT !.cnt = <<a, b, a, b>>] : a \in 0..MaxElems, b \in 0..MaxElems}

\* inputs with one pointer field holding 0
InNull ==
    { [Base EXCEPT !.strtab = FALSE, !.slots = <<>>],
      [Base EXCEPT !.slots = <<0, 1>>],
      [Base EXCEPT !.mats = <<0>>],
      [Base EXCEPT !.nul = {"verts"}],
      [Base EXCEPT !.nul = {"normals", "uvs"}],
      [Base EXCEPT !.nul = {"colors"}],
      [Base EXCEPT !.nul = {"verts", "normals", "colors", "uvs"}],
      WithFacelist(FL(11, 1, 0)),
      WithFacelist([tag |-> 11, k |-> 0, mat |-> 1, faces |-> FALSE]) }

\* strings: empty, shared by two slots, not UTF-8
InStrings ==
    { [Base EXCEPT !.strs = <<Foo, StrEmpty>>],
      [Base EXCEPT !.slots = <<1, 1>>],
      [Base EXCEPT !.strs = <<Foo, StrBad>>],
      [Base EXCEPT !.strs = <<StrBad, Foo>>, !.slots = <<2>>] }

\* the plain input cut short inside each of its sections
InCut ==
    LET L == Layout(Base)
        starts == {0, L.strtab, L.str[1], L.str[2], L.mat[1], L.arr, L.v, L.n,
                   L.c, L.u, L.set[1], L.fl[1], L.faces[1]}
    IN  {[Base EXCEPT !.cut = o + d] : o \in starts, d \in {1, 6}}

\* buffers whose declared capacity is above or below their declared count
InCaps ==
    {[Base EXCEPT !.cnt = <<c, c, c, c>>, !.slack = d] : c \in 1..MaxElems, d \in {-1, 1}}

\* facelist sets whose matrix-palette offset field is not 0: an offset no
\* record lies at, the offset of the set itself, an offset past the end
InPalette == {[Base EXCEPT !.palette = o] : o \in {7, Layout(Base).set[1], 4096}}

\* chains whose last record links back to the first: the material chain, the
\* facelist-set chain, the facelist chain of a set
InCyclic ==
    {[Base EXCEPT !.mats = Mats(n), !.chain = n, !.cyc = {"mat"}] : n \in 1..MaxChain}
    \cup {[Base EXCEPT !.sets = [x \in 1..n |-> <<FL(11, 1, 1)>>], !.cyc = {"set"}]
             : n \in 1..MaxChain}
    \cup {[Base EXCEPT !.sets = << [j \in 1..n |-> FL(11, 1, 1)] >>, !.cyc = {"fl"}]
             : n \in 1..MaxChain}

\* facelist sets whose declared facelist count is not the length of their
\* chain: 0 for a chain of one or two, 1 for an empty chain, more than the chain
InDeclared ==
    {[Base EXCEPT !.sets = << [j \in 1..n |-> FL(11, 1, 1)], <<>> >>, !.extra = -n]
        : n \in 1..MaxChain}
    \cup {[Base EXCEPT !.sets = << <<>>, <<FL(11, 1, 1)>> >>, !.extra = -1],
          [Base EXCEPT !.extra = 2]}

Inputs ==
    InTags \cup InMaterials \cup InSets \cup InCounts \cup InNull \cup InStrings
    \cup InCut \cup InCaps \cup InPalette \cup InCyclic \cup InDeclared

----------------------------------------------------------------------------
Init ==
    /\ file \in {BuildFile(p) : p \in Inputs}
    /\ pos = 0
    /\ stack = << [fn |-> "NxfObjGeom_from_read", pc |-> 1, loc |-> EmptyLoc,
                   pos0 |-> 0, t0 |-> 0] >>
    /\ status = "run"
    /\ result = <<>>
    /\ log = <<>>

Next ==
    \/ ReadExact
    \/ SeekCurrent
    \/ SeekFromStart
    \/ NextByte
    \/ IoError
    \/ CallFn
    \/ CallClosure
    \/ ReturnValue
    \/ ReturnStruct
    \/ Assign
    \/ VecPush
    \/ FieldGet
    \/ BranchZero
    \/ ForNext
    \/ Match
    \/ Panic
    \/ FromUtf8Unwrap
    \/ Propagate

Spec == Init /\ [][Next]_vars

\* the decode is one thread that runs until it returns or panics: a
\* statement that can execute does
FairSpec == Spec /\ WF_vars(Next)

----------------------------------------------------------------------------
(* Scene templates (src/sf/src/lib.rs): a 72-byte header with a 32-byte    *)
(* name, a table of clump offsets, and clumps of placements of             *)
(* 124 + data_len bytes each.                                              *)

\* a 32-byte name field: the bytes bs, then the byte fill up to 32
NameField(bs, fill) == bs \o [i \in 1..(32 - Len(bs)) |-> fill]

\* "Foo" null-padded, 32 bytes none of which is 0, all zeros, "Ab" followed by
\* a zero and bytes that are not 0, U+00E9 null-padded, a byte that is no UTF-8
Names ==
    [ foo |-> NameField(<<70, 111, 111>>, 0),
      full |-> [i \in 1..32 |-> 64 + i],
      empty |-> NameField(<<>>, 0),
      junk |-> NameField(<<65, 98, 0>>, 90),
      e9 |-> NameField(<<195, 169>>, 0),
      bad |-> NameField(<<255>>, 0) ]

\* a placement: main and sub type, the two names, the declared length of its
\* data and the data bytes
Placement(main_type, sub_type, model, geom, len, data) ==
    [main |-> main_type, sub |-> sub_type, model |-> model, geom |-> geom,
     len |-> len, data |-> data]

EncPlacement(q, pl) ==
    BE(4, pl.main) \o BE(4, pl.sub) \o Names[pl.model] \o Names[pl.geom]
    \o EncRun(4, 12, 7168 + 16 * q) \o BE(4, pl.len) \o pl.data

EncClump(c, pls) ==
    BE(2, Len(pls)) \o BE(2, 0) \o EncRun(4, 4, 7424 + 16 * c)
    \o Concat([q \in 1..Len(pls) |-> EncPlacement(4 * c + q, pls[q])])

\* the bytes of scene sc = [name, clumps, cut]
BuildScene(sc) ==
    LET n == Len(sc.clumps)
        bodies == [c \in 1..n |-> EncClump(c, sc.clumps[c])]
        size == [c \in 1..n |-> Len(bodies[c])]
        all == BE(4, 21318) \o BE(4, 2) \o BE(4, 1065353216) \o Names[sc.name]
               \o EncRun(4, 6, 7680) \o BE(2, n) \o BE(2, 0)
               \o Concat([c \in 1..n |-> BE(4, 72 + 4 * n + SumTo(size, c - 1))])
               \o Concat(bodies)
    IN  IF sc.cut = 0 THEN all ELSE SubSeq(all, 1, sc.cut)

Plain == Placement(0, 9, "foo", "full", 0, <<>>)
Scene(name, clumps) == [name |-> name, clumps |-> clumps, cut |-> 0]

\* every kind of name in each of the three name fields
InNames ==
    {Scene(a, << <<Plain>> >>) : a \in DOMAIN Names}
    \cup {Scene("full", << <<Placement(0, 9, b, "full", 0, <<>>)>> >>) : b \in DOMAIN Names}
    \cup {Scene("junk", << <<Placement(0, 9, "empty", c, 0, <<>>)>> >>) : c \in DOMAIN Names}

\* placements of main types with and without data, data longer than from_bytes
\* reads, data shorter than it reads, a declared length the file does not hold
InData ==
    {Scene("foo", << <<Placement(m, 9, "junk", "foo", 4 * Len(PlacementWords(m)) + x,
                                 EncRun(1, 4 * Len(PlacementWords(m)) + x, 0)), Plain>> >>)
        : m \in {0, 6, 7, 9, 13, 22, 99}, x \in {0, 2}}
    \cup {Scene("foo", << <<Placement(7, 1, "foo", "foo", 4, <<1, 2, 3, 4>>), Plain>> >>),
          Scene("foo", << <<Placement(99, 1, "foo", "foo", 9, <<1, 2, 3, 4>>)>> >>)}

\* templates of every number of clumps and placements
InClumps ==
    {Scene("e9", [c \in 1..nc |-> [q \in 1..np |->
                    Placement(6, c + q, "foo", "junk", q, EncRun(1, q, 0))]])
        : nc \in 0..MaxClumps, np \in 0..MaxPlacements}

\* a template cut short inside each of its name fields and after them
InSceneCut ==
    {[Scene("foo", << <<Plain>> >>) EXCEPT !.cut = o] : o \in {20, 44, 110, 150, 200}}

Scenes == InNames \cup InData \cup InClumps \cup InSceneCut

SfInit ==
    /\ file \in {BuildScene(sc) : sc \in Scenes}
    /\ pos = 0
    /\ stack = << [fn |-> "SceneTemplate_from_read", pc |-> 1, loc |-> EmptyLoc,
                   pos0 |-> 0, t0 |-> 0] >>
    /\ status = "run"
    /\ result = <<>>
    /\ log = <<>>

SfNext ==
    \/ ReadExact
    \/ ReadExactVec
    \/ SeekCurrent
    \/ SeekFromStart
    \/ IoError
    \/ CallFn
    \/ ReturnStruct
    \/ Assign
    \/ VecPush
    \/ ForNext
    \/ PositionOfZero
    \/ FromUtf8PrefixUnwrap
    \/ FromBytes
    \/ Propagate

SfSpec == SfInit /\ [][SfNext]_vars

----------------------------------------------------------------------------
(* Runs of the front end: a command line, whether the input file exists and *)
(* the output file can be created, and the bytes of the input file.         *)

\* what getopts makes of a command line
Args(ok, help, free, sf, nxf, stem) ==
    [parse_ok |-> ok, help |-> help, free |-> free, sf |-> sf, nxf |-> nxf,
     stem |-> stem]

Run(args, exists, creatable, bytes) ==
    [args |-> args, exists |-> exists, creatable |-> creatable, file |-> bytes]

\* every command line, over one scene template and one model
RunsOfArgs ==
    {Run(Args(ok, h, f, s, n, st), e, c,
         IF s # <<>> THEN BuildScene(Scene("foo", << <<Plain>> >>)) ELSE BuildFile(Base))
        : ok \in BOOLEAN, h \in BOOLEAN, f \in {<<>>, <<"out">>},
          s \in {<<>>, <<"in">>}, n \in {<<>>, <<"in">>}, st \in BOOLEAN,
          e \in BOOLEAN, c \in BOOLEAN}

\* models for --nxf: facelists of every variant, alone and after a facelist
\* that can be written, 0..MaxChain materials, with and without uvs, no set,
\* two sets, and files whose decode fails or panics
Geoms ==
    {WithFacelist(FL(t, 1, 1)) : t \in Tags \cup {99}}
    \cup {[Base EXCEPT !.mats = Mats(MaxChain), !.chain = c,
                       !.sets = << <<FL(11, 1, 1), FL(t, 1, 2)>> >>]
             : c \in 0..MaxChain, t \in {6, 10}}
    \cup {[Base EXCEPT !.cnt = <<1, 1, 1, 0>>],
          [Base EXCEPT !.sets = <<>>],
          [Base EXCEPT !.sets = << <<FL(11, 2, 1)>>, <<FL(10, 1, 1)>> >>],
          [Base EXCEPT !.strs = <<Foo, StrBad>>],
          [Base EXCEPT !.cut = 40]}

\* scene templates for --sf: points, bounding boxes, placements of Nxf
\* geometry and of other kinds, in 0..MaxClumps clumps
Templates ==
    InClumps \cup InData \cup InSceneCut

Runs ==
    RunsOfArgs
    \cup {Run(Args(TRUE, FALSE, <<"out">>, <<>>, <<"in">>, TRUE), TRUE, TRUE, BuildFile(p))
             : p \in Geoms}
    \cup {Run(Args(TRUE, FALSE, <<"out">>, <<"in">>, <<>>, TRUE), TRUE, TRUE, BuildScene(sc))
             : sc \in Templates}

MainInit ==
    /\ \E r \in Runs :
          /\ file = r.file
          /\ stack = << [fn |-> "main", pc |-> 1,
                         loc |-> [args |-> r.args, exists |-> r.exists,
                                  creatable |-> r.creatable],
                         pos0 |-> 0, t0 |-> 0] >>
    /\ pos = 0
    /\ status = "run"
    /\ result = <<>>
    /\ log = <<>>

MainNext ==
    \/ ReadExact
    \/ ReadExactVec
    \/ SeekCurrent
    \/ SeekFromStart
    \/ NextByte
    \/ IoError
    \/ CallFn
    \/ CallClosure
    \/ ReturnValue
    \/ ReturnStruct
    \/ Assign
    \/ VecPush
    \/ FieldGet
    \/ BranchZero
    \/ ForNext
    \/ Match
    \/ Panic
    \/ FromUtf8Unwrap
    \/ PositionOfZero
    \/ FromUtf8PrefixUnwrap
    \/ FromBytes
    \/ Propagate
    \/ WriterWrite
    \/ Unimplemented
    \/ PrintHelpAndReturn
    \/ barf
    \/ CollectOperations
    \/ OpenOrCreate
    \/ PrintLine

MainSpec == MainInit /\ [][MainNext]_vars

----------------------------------------------------------------------------
(* What the properties below read off a state.                             *)

InsOf(k) == Code(stack[k].fn)[stack[k].pc]

\* frame k is about to return Ok(..) to its caller
AtReturn(k) == k = Len(stack) /\ status = "run" /\ InsOf(k).op \in {"ret", "retv"}

\* the log entries made since frame k was entered
Since(k) == (stack[k].t0 + 1)..Len(log)

U32At(o) == BEValue(Slice(file, o, 4))
U16At(o) == BEValue(Slice(file, o, 2))

RECURSIVE ChainFrom(_, _, _)
\* the record offsets a chain links in the file, from head o, when the offset
\* of the next record is stored d bytes after a record's start
ChainFrom(o, d, fuel) ==
    IF o = 0 \/ fuel = 0 THEN <<>>
    ELSE <<o>> \o ChainFrom(U32At(o + d), d, fuel - 1)

\* where the next offset of a chain is stored, and the width of the first
\* field of its records
NextAt(fn) == IF fn = "NxfMaterial_list_from_read" THEN 40 ELSE 20
IdWidth(fn) == IF fn = "NxfFacelist_list_from_read" THEN 2 ELSE 4
IdField(fn) == IF fn = "NxfMaterial_list_from_read" THEN "tex_pmi" ELSE "flags"

\* the chain head frame k (a chain decoder) was called with
HeadOf(k) == stack[k - 1].loc[InsOf(k - 1).args.offset]

----------------------------------------------------------------------------
\* C1: whenever read_at_offset(O, step) is about to return Ok, the cursor is
\* back at the position P it had when read_at_offset was called, and the step
\* it ran (nested offset-scoped reads included) was started with the cursor
\* at O.
C1_ReadAtOffsetRestores ==
    \A k \in 1..Len(stack) :
        stack[k].fn = "read_at_offset" =>
            /\ (AtReturn(k) => pos = stack[k].pos0)
            /\ (k < Len(stack) /\ InsOf(k).op = "callf"
                    => stack[k + 1].pos0 = stack[k].loc.offset)

\* the read_at_offset of the string table returns after its step made nested
\* offset-scoped reads and moved the cursor away from P
C1_Witness ==
    /\ stack # <<>> /\ AtReturn(Len(stack))
    /\ Top.fn = "read_at_offset"
    /\ Top.loc.f = "NxfObjGeom_strings_f"
    /\ Len(Top.loc.result) = 2
    /\ Top.loc.offset # Top.pos0

----------------------------------------------------------------------------
\* C2: whenever one of the three chain decoders is about to return Ok, its
\* sequence holds exactly the records the chain links in the file from the
\* head it was given, in that order (a record is told by its first field);
\* with a head of 0 the sequence is empty and nothing was read.
C2_ChainDecodesInOrder ==
    \A k \in 2..Len(stack) :
        (stack[k].fn \in ListFns /\ AtReturn(k)) =>
            LET fn == stack[k].fn
                recs == stack[k].loc[InsOf(k).src]
                chain == ChainFrom(HeadOf(k), NextAt(fn), Len(file))
            IN  /\ Len(recs) = Len(chain)
                /\ \A i \in 1..Len(chain) :
                       recs[i][IdField(fn)]
                           = BEValue(Slice(file, chain[i], IdWidth(fn)))
                /\ (HeadOf(k) = 0 =>
                       /\ recs = <<>>
                       /\ \A t \in Since(k) : log[t][1] \notin {"read", "short"})

\* the facelist chain decoder returns a chain of MaxChain different records
C2_Witness ==
    /\ stack # <<>> /\ AtReturn(Len(stack))
    /\ Top.fn = "NxfFacelist_list_from_read"
    /\ Len(Top.loc.facelists) = MaxChain
    /\ Top.loc.facelists[1].flags # Top.loc.facelists[MaxChain].flags

----------------------------------------------------------------------------
(* The material records a decode reads.                                    *)

\* the log entries that start the decode of a material record at offset o:
\* the first field read by NxfMaterial::from_read right after a seek to o
MaterialDecodes(o) ==
    {t \in 2..Len(log) :
        /\ log[t] = <<"read", o, 4, "NxfMaterial_from_read">>
        /\ log[t - 1][1] = "seek" /\ log[t - 1][2] = o}

\* the record offsets of the file: the material chain, the facelist-set chain
\* and the facelist chain of each set
FileMaterials == ChainFrom(U32At(32), 40, Len(file))
FileSets == ChainFrom(U32At(40), 20, Len(file))
FileFacelists(s) == ChainFrom(U32At(FileSets[s] + 12), 20, Len(file))
\* the material offset stored in the facelist record at offset g
MaterialOffsetOf(g) == U32At(g + 8)

\* the positions <<set, facelist>> of the file's facelists
FacelistPlaces ==
    {<<x, j>> \in (1..Len(FileSets)) \X (1..Len(file)) : j <= Len(FileFacelists(x))}

\* how often the file refers to the material record at offset o
MaterialRefs(o) ==
    Cardinality({i \in 1..Len(FileMaterials) : FileMaterials[i] = o})
    + Cardinality({pl \in FacelistPlaces :
                      MaterialOffsetOf(FileFacelists(pl[1])[pl[2]]) = o})

MaterialOffsets ==
    {FileMaterials[i] : i \in 1..Len(FileMaterials)}
    \cup {MaterialOffsetOf(FileFacelists(pl[1])[pl[2]]) : pl \in FacelistPlaces}

\* two facelists of the file that store the same material offset
SharingPlaces ==
    {pp \in FacelistPlaces \X FacelistPlaces :
        /\ pp[1] # pp[2]
        /\ MaterialOffsetOf(FileFacelists(pp[1][1])[pp[1][2]])
             = MaterialOffsetOf(FileFacelists(pp[2][1])[pp[2][2]])}

DecodedFacelist(pl) == result[1].facelist_sets[pl[1]].facelists[pl[2]]

----------------------------------------------------------------------------
\* C4: no pointer field holding 0 is dereferenced: the decode never seeks to
\* offset 0.  (Every seek of a decode that starts at offset 0 is either the
\* dereference of a pointer or the return to a position inside a record that
\* has already been read from, so a seek to 0 is the dereference of a 0.)
C4_NoSeekToZero ==
    \A t \in 1..Len(log) : log[t][1] = "seek" => log[t][2] # 0

----------------------------------------------------------------------------
\* the variant NxfFaces::from_read builds for a tag
VariantOf(tag) ==
    CASE tag = 6 -> "ColLitTri" [] tag = 8 -> "TexLitTri" [] tag = 10 -> "TexUnlitTri"
      [] tag = 11 -> "ColUnlitTri" [] tag = 20 -> "TexLitEnvTri"
      [] tag = 21 -> "ColLitEnvTri" [] OTHER -> "none"

\* the last field of a triangle of a tag
LastFieldOf(tag) ==
    IF tag \in {6, 11} THEN "c2" ELSE IF tag \in {8, 10} THEN "uv2" ELSE "m2"

\* C5: whenever NxfFaces::from_read(tag, K) is about to return Ok, the tag is
\* one of the six, the cursor is K x width(tag) bytes past where it started
\* (widths 18, 24, 18, 12, 30, 24), the variant is the one of the tag, and it
\* holds K triangles in source order, triangle i made of the bytes
\* start + (i-1) x width .. start + i x width - 1.
C5_FacesWidthAndVariant ==
    \A k \in 1..Len(stack) :
        (stack[k].fn = "NxfFaces_from_read" /\ AtReturn(k)) =>
            LET tag == stack[k].loc.facelist_type
                K == stack[k].loc.num
                w == Width(tag)
                faces == stack[k].loc.faces
                start == stack[k].pos0
            IN  /\ tag \in Tags
                /\ pos = start + K * w
                /\ InsOf(k).ctor = VariantOf(tag)
                /\ Len(faces) = K
                /\ \A i \in 1..K :
                       /\ faces[i].v0 = U16At(start + (i - 1) * w)
                       /\ faces[i][LastFieldOf(tag)] = U16At(start + i * w - 2)
                /\ Cardinality({t \in Since(k) : log[t][1] = "read"}) * 2 = K * w

\* from_read returns MaxFaces triangles of the widest layout
C5_Witness ==
    /\ stack # <<>> /\ AtReturn(Len(stack))
    /\ Top.fn = "NxfFaces_from_read"
    /\ Top.loc.facelist_type = 20
    /\ Len(Top.loc.faces) = MaxFaces /\ MaxFaces > 0

----------------------------------------------------------------------------
\* C6: a tag outside the six makes the decode fail with an error result, as
\* every other decode failure does: the decode does not stop in
\* NxfFaces::from_read otherwise than by an Err travelling to the caller.
C6_BadTagIsErrorResult ==
    \A k \in 1..Len(stack) :
        (stack[k].fn = "NxfFaces_from_read" /\ stack[k].loc.facelist_type \notin Tags)
            => status # "panic"

----------------------------------------------------------------------------
\* C7: with a tag outside the six, NxfFaces::from_read reads nothing and
\* fails: the cursor stays at the start of the face block, no seek and no read
\* is made, no other function is called, and the only statements it executes
\* are the match and the panic of its last arm, for every count.
C7_BadTagReadsNothing ==
    \A k \in 1..Len(stack) :
        (stack[k].fn = "NxfFaces_from_read" /\ stack[k].loc.facelist_type \notin Tags)
            => /\ k = Len(stack)
               /\ pos = stack[k].pos0
               /\ Len(log) = stack[k].t0
               /\ InsOf(k).op \in {"match", "panic"}
               /\ status \in {"run", "panic"}

\* the decode has failed on a bad tag whose face block declares faces
C7_Witness ==
    /\ status = "panic"
    /\ Top.fn = "NxfFaces_from_read"
    /\ Top.loc.facelist_type = 99
    /\ Top.loc.num = MaxFaces /\ MaxFaces > 0
    /\ pos = Top.pos0

----------------------------------------------------------------------------
\* a seek or a read of the decode has failed
Failed == \E t \in 1..Len(log) : log[t][1] \in {"short", "ioerr"}

\* C8: no partial model: once a seek or a read has failed, at whatever depth,
\* the decode never runs on and never returns a value: it ends with the error
\* and no NxfObjGeom; a value is returned only when no seek or read failed,
\* and it is a whole NxfObjGeom.
C8_AllOrNothing ==
    /\ Failed => /\ status \in {"unwind", "err"}
                 /\ result[1].ctor = "Err"
                 /\ (status = "err" => stack = <<>>)
    /\ status = "ok" => /\ ~Failed
                        /\ result[1].ctor = "NxfObjGeom"
                        /\ DOMAIN result[1]
                             = {"ctor"} \cup {NxfObjGeomFields[i] :
                                                 i \in 1..Len(NxfObjGeomFields)}

\* the decode has ended with the error of a read that failed in a face block,
\* after the strings, materials and arrays had been decoded
C8_Witness ==
    /\ status = "err"
    /\ log[Len(log)][4] = "NxfColUnlitTri_from_read"
    /\ result[1].ctor = "Err"

----------------------------------------------------------------------------
\* C9: a field or buffer element is never built from fewer bytes than its
\* width: every read that produced a value lay inside the source; a read that
\* met the end of the source ends the decode with UnexpectedEof; and a buffer
\* or face collection that is returned holds as many elements as declared.
C9_NoShortRead ==
    /\ \A t \in 1..Len(log) :
           /\ log[t][1] = "read" => log[t][2] + log[t][3] <= Len(file)
           /\ log[t][1] = "short" =>
                  /\ log[t][2] + log[t][3] > Len(file)
                  /\ t = Len(log)
                  /\ status \in {"unwind", "err"}
                  /\ result = << [ctor |-> "Err", kind |-> "UnexpectedEof"] >>
    /\ \A k \in 1..Len(stack) :
           AtReturn(k) =>
               /\ (stack[k].fn = "NxfArray_verts_f"
                      => Len(stack[k].loc.verts) = stack[k].loc.num_verts)
               /\ (stack[k].fn = "NxfArray_normals_f"
                      => Len(stack[k].loc.normals) = stack[k].loc.num_normals)
               /\ (stack[k].fn = "NxfArray_colors_f"
                      => Len(stack[k].loc.colors) = stack[k].loc.num_cols)
               /\ (stack[k].fn = "NxfArray_uvs_f"
                      => Len(stack[k].loc.uvs) = stack[k].loc.num_uvs)
               /\ (stack[k].fn = "NxfFaces_from_read"
                      => Len(stack[k].loc.faces) = stack[k].loc.num)

\* the source ended inside a vertex of a buffer that declares it
C9_Witness ==
    /\ status = "err"
    /\ result = << [ctor |-> "Err", kind |-> "UnexpectedEof"] >>
    /\ log[Len(log)][1] = "short"
    /\ log[Len(log)][4] = "Vec3_from_read"
    /\ log[Len(log)][2] < Len(file)

----------------------------------------------------------------------------
\* the offset of the first zero byte of the file at or after offset x
\* (Len(file) when there is none)
FirstZero(x) ==
    LET zs == {z \in x..(Len(file) - 1) : file[z + 1] = 0}
    IN  IF zs = {} THEN Len(file) ELSE CHOOSE z \in zs : \A y \in zs : z <= y

\* C10: whenever read_string, started at offset X with a zero byte at or
\* after X, is about to return Ok, its text is the UTF-8 decoding of the bytes
\* from X up to the first zero byte (F,o,o gives the code points of "Foo"),
\* the cursor is one past that zero byte, and exactly the bytes X .. zero
\* have been read.
C10_ReadStringToTerminator ==
    \A k \in 1..Len(stack) :
        (stack[k].fn = "read_string" /\ AtReturn(k)
         /\ FirstZero(stack[k].pos0) < Len(file)) =>
            LET x == stack[k].pos0
                z == FirstZero(x)
                bytes == Slice(file, x, z - x)
                text == stack[k].loc[InsOf(k).src]
            IN  /\ text = Utf8Decode(bytes)
                /\ Len(text) <= Len(bytes)
                /\ (bytes = <<70, 111, 111>> => text = <<70, 111, 111>>)
                /\ (bytes = <<195, 169>> => text = <<233>>)
                /\ pos = z + 1
                /\ \A i \in x..z : log[stack[k].t0 + 1 + (i - x)] = <<"read", i, 1, "read_string">>
                /\ Len(log) = stack[k].t0 + (z - x) + 1

\* read_string returns "Foo" from the bytes F,o,o,0
C10_Witness ==
    /\ stack # <<>> /\ AtReturn(Len(stack))
    /\ Top.fn = "read_string"
    /\ Top.pos0 + 4 <= Len(file)
    /\ Slice(file, Top.pos0, 4) = <<70, 111, 111, 0>>
    /\ Top.loc.string = <<70, 111, 111>>
    /\ pos = Top.pos0 + 4

----------------------------------------------------------------------------
\* the string table of the file: its slot count, and the string offset its
\* slot i holds
NumSlots == U16At(24)
SlotOffset(i) == U32At(U32At(28) + 4 * (i - 1))
SlotsAt(X) == {i \in 1..NumSlots : SlotOffset(i) = X}

\* the text of the null-terminated string at offset X of the file
StringAt(X) == Utf8Decode(Slice(file, X, FirstZero(X) - X))

\* the decodes of the string at offset X made so far: read_at_offset seeks
\* to X and read_string starts reading there
StringDecodes(X) ==
    {t \in 1..(Len(log) - 1) :
        /\ log[t] = <<"seek", X, 0, "read_at_offset">>
        /\ log[t + 1][4] = "read_string" /\ log[t + 1][2] = X}

\* those made for the string table: before the root record's material_offset
\* field (offset 32) is read
TableDecodes(X) ==
    {t \in StringDecodes(X) :
        \A u \in 1..t : log[u] # <<"read", 32, 4, "NxfObjGeom_from_read">>}

\* two slots of the string table hold the same offset
SlotsShare == \E i, j \in 1..NumSlots : i # j /\ SlotOffset(i) = SlotOffset(j)

----------------------------------------------------------------------------
\* C12: bytes that are not valid UTF-8 in a string region make the decode
\* fail with an error result: when read_string has collected a buffer that is
\* not UTF-8, the decode does not end otherwise than by an Err travelling to
\* the caller.
C12_BadUtf8IsErrorResult ==
    \A k \in 1..Len(stack) :
        (/\ stack[k].fn = "read_string"
         /\ InsOf(k).op = "from_utf8"
         /\ Utf8Decode(stack[k].loc.buffer) = <<-1>>)
            => status # "panic"

----------------------------------------------------------------------------
\* the four buffers of NxfArray: <<buffer, declared count, declared capacity>>
ArrayBuffers ==
    { <<"verts", "num_verts", "max_verts">>, <<"normals", "num_normals", "max_normals">>,
      <<"colors", "num_cols", "max_cols">>, <<"uvs", "num_uvs", "max_uvs">> }

\* C13: whenever NxfArray::from_read is about to return Ok, each of its four
\* buffers has as many elements as the count the block declares for it, and
\* that count is at most the capacity the block declares for it.
C13_CountWithinCapacity ==
    \A k \in 1..Len(stack) :
        (stack[k].fn = "NxfArray_from_read" /\ AtReturn(k)) =>
            \A b \in ArrayBuffers :
                /\ Len(stack[k].loc[b[1]]) = stack[k].loc[b[2]]
                /\ stack[k].loc[b[2]] <= stack[k].loc[b[3]]

----------------------------------------------------------------------------
\* the 32-bit value at offset o, 0 when the file ends before it
WordAt(o) == IF o + 4 <= Len(file) THEN U32At(o) ELSE 0

RECURSIVE ChainEnds(_, _, _)
\* the chain from record offset o (next offsets d bytes into a record) comes
\* to a next offset of 0, or to the end of the file, without coming to a
\* record of seen or to one record twice
ChainEnds(o, d, seen) ==
    IF o = 0 THEN TRUE
    ELSE IF o \in seen THEN FALSE
    ELSE ChainEnds(WordAt(o + d), d, seen \cup {o})

RECURSIVE ChainRecords(_, _, _)
\* the record offsets of that chain, each once
ChainRecords(o, d, seen) ==
    IF o = 0 \/ o \in seen THEN <<>>
    ELSE <<o>> \o ChainRecords(WordAt(o + d), d, seen \cup {o})

\* the material chain, the facelist-set chain and the facelist chain of every
\* set of the file are finite and acyclic
AcyclicChains ==
    /\ ChainEnds(WordAt(32), 40, {})
    /\ ChainEnds(WordAt(40), 20, {})
    /\ LET sets == ChainRecords(WordAt(40), 20, {})
       IN  \A x \in 1..Len(sets) : ChainEnds(WordAt(sets[x] + 12), 20, {})

\* C14: on a file whose chains are finite and acyclic the decode eventually
\* terminates, returning a model or an error.
C14_TerminatesWithResult == AcyclicChains => <>(status \in {"ok", "err"})

----------------------------------------------------------------------------
\* the list a chain decoder collects
ListOf(fn) ==
    CASE fn = "NxfMaterial_list_from_read" -> "materials"
      [] fn = "NxfFacelist_list_from_read" -> "facelists"
      [] fn = "NxfFacelistSet_list_from_read" -> "facelist_sets"

\* C15: whenever a chain decoder (materials, facelists, facelist sets) is
\* about to return Ok, for a chain of any length, the cursor is where it was
\* when the decoder was called: just past the chain-head field of the
\* referencing record, which was the last thing read before the call, so the
\* record goes on with the field that follows it.
C15_ChainRestoresCursor ==
    \A k \in 1..Len(stack) :
        (stack[k].fn \in ListFns /\ AtReturn(k)) =>
            /\ pos = stack[k].pos0
            /\ log[stack[k].t0] = <<"read", pos - 4, 4, stack[k - 1].fn>>
            /\ U32At(pos - 4) = HeadOf(k)

\* a chain decoder is about to return a chain of MaxChain records with the
\* cursor away from the last record it read
C15_Witness ==
    /\ stack # <<>> /\ AtReturn(Len(stack)) /\ Top.fn \in ListFns
    /\ Len(Top.loc[ListOf(Top.fn)]) = MaxChain
    /\ log[Len(log)] = <<"seek", Top.pos0, 0, Top.fn>>
    /\ log[Len(log) - 1][2] # Top.pos0 - 4

----------------------------------------------------------------------------
\* the fields of the 68-byte root record in the order of the format:
\* <<offset, width, variable of NxfObjGeom::from_read>>
RootRecord ==
    << <<0, 4, "id">>, <<4, 4, "endian">>, <<8, 4, "version">>, <<12, 4, "flags">>,
       <<16, 4, "alpha_mode">>, <<20, 4, "env_map_alpha_mode">>,
       <<24, 2, "num_strings">>, <<26, 2, "_pad">>, <<28, 4, "strings_offset">>,
       <<32, 4, "material_offset">>, <<36, 4, "arrays_offset">>,
       <<40, 4, "first_facelist_set">>,
       <<44, 4, "display_list">>, <<48, 4, "display_list_size">>,
       <<52, 4, "_expanded">>, <<56, 4, "_pad1">>, <<60, 4, "_pad2">>,
       <<64, 4, "_pad3">> >>

\* the structure a root field points to: the variable that holds it once it
\* is decoded and the functions that seek and read while it is decoded
Pointed(j) ==
    CASE j = 9 -> [var |-> "strings",
                   fns |-> {"read_at_offset", "NxfObjGeom_strings_f", "read_string"}]
      [] j = 10 -> [var |-> "materials",
                    fns |-> {"NxfMaterial_list_from_read", "NxfMaterial_from_read",
                             "read_at_offset", "read_string"}]
      [] j = 11 -> [var |-> "arrays",
                    fns |-> {"read_at_offset", "NxfArray_from_read", "Vec3_from_read",
                             "Color_from_read", "Uv_from_read"}]
      [] j = 12 -> [var |-> "facelist_sets",
                    fns |-> {"NxfFacelistSet_list_from_read", "NxfFacelistSet_from_read",
                             "NxfFacelist_list_from_read", "NxfFacelist_from_read",
                             "read_at_offset", "NxfMaterial_from_read", "read_string",
                             "NxfColLitTri_from_read", "NxfTexLitTri_from_read",
                             "NxfTexUnlitTri_from_read", "NxfColUnlitTri_from_read",
                             "NxfTexLitEnvTri_from_read", "NxfColLitEnvTri_from_read"}]
      [] OTHER -> [var |-> "", fns |-> {}]

IsRootEntry(e) == e[4] = "NxfObjGeom_from_read"
IsRootRead(e) == IsRootEntry(e) /\ e[1] = "read"

\* what NxfObjGeom::from_read itself has done to the source so far, and the
\* number of root fields it has read
RootLog == SelectSeq(log, IsRootEntry)
RootReads == Len(SelectSeq(log, IsRootRead))

\* the value of root field j in the file
RootValue(j) ==
    IF j = 1 THEN Slice(file, 0, 4)
    ELSE BEValue(Slice(file, RootRecord[j][1], RootRecord[j][2]))

\* C16: NxfObjGeom::from_read consumes the root record in the order of
\* RootRecord: its own accesses to the source are, one after the other, the
\* fields at offsets 0, 4, .. 64, each held by the variable of its name;
\* every seek or read made by another function belongs to the structure the
\* field read last points to, and once the next root field is read that
\* structure is decoded (its variable is set), so no part of it is read later.
C16_RootFieldOrder ==
    (stack # <<>> /\ stack[1].fn = "NxfObjGeom_from_read") =>
        /\ Len(RootLog) <= Len(RootRecord)
        /\ \A j \in 1..Len(RootLog) :
              /\ RootLog[j][2] = RootRecord[j][1]
              /\ RootLog[j][1] \in {"read", "short"} => RootLog[j][3] = RootRecord[j][2]
              /\ RootLog[j][1] \in {"read", "short", "ioerr"}
        /\ \A j \in 1..RootReads :
              /\ RootRecord[j][3] \in DOMAIN stack[1].loc
              /\ stack[1].loc[RootRecord[j][3]] = RootValue(j)
        /\ \A j \in 1..(RootReads - 1) :
              Pointed(j).var # "" => Pointed(j).var \in DOMAIN stack[1].loc
        /\ (log # <<>> /\ ~IsRootEntry(log[Len(log)]))
              => log[Len(log)][4] \in Pointed(RootReads).fns

\* the root record has been read to its last field with a string table, a
\* material chain, vertex buffers and a facelist set decoded on the way
C16_Witness ==
    /\ stack # <<>> /\ Len(stack) = 1 /\ RootReads = Len(RootRecord)
    /\ stack[1].loc.strings # <<>> /\ stack[1].loc.materials # <<>>
    /\ stack[1].loc.arrays.verts # <<>> /\ stack[1].loc.facelist_sets # <<>>

----------------------------------------------------------------------------
\* the 16-bit fields of one triangle record, in the order they lie on disk
TriLayout(tag) ==
    CASE tag = 6 -> <<"v0", "n0", "c0", "v1", "n1", "c1", "v2", "n2", "c2">>
      [] tag = 8 -> <<"v0", "n0", "c0", "uv0", "v1", "n1", "c1", "uv1",
                      "v2", "n2", "c2", "uv2">>
      [] tag = 10 -> <<"v0", "c0", "uv0", "v1", "c1", "uv1", "v2", "c2", "uv2">>
      [] tag = 11 -> <<"v0", "c0", "v1", "c1", "v2", "c2">>
      [] tag = 20 -> <<"v0", "n0", "c0", "uv0", "m0", "v1", "n1", "c1", "uv1", "m1",
                       "v2", "n2", "c2", "uv2", "m2">>
      [] tag = 21 -> <<"v0", "n0", "c0", "m0", "v1", "n1", "c1", "m1",
                       "v2", "n2", "c2", "m2">>

\* the material the 40-byte record at offset m of the file encodes
MaterialAt(m) ==
    [ ctor |-> "NxfMaterial",
      tex_pmi |-> U32At(m), ref_pmi |-> U32At(m + 4),
      tex_name |-> StringAt(U32At(m + 8)),
      ref_map |-> U32At(m + 12),
      ref_r |-> file[m + 17], ref_g |-> file[m + 18],
      ref_b |-> file[m + 19], ref_a |-> file[m + 20],
      flags |-> U32At(m + 20), alpha_mode |-> U32At(m + 24),
      env_map_alpha_mode |-> U32At(m + 28) ]

\* C17: whenever NxfFacelist::from_read, started on the record at offset g,
\* is about to return Ok, its faces are the variant of the record's own tag
\* holding num_faces triangles, field j of triangle i being the 16-bit
\* big-endian value at faces offset + (i-1) x width + 2 x (j-1) (for tag 11:
\* v0, c0, v1, c1, v2, c2 are six consecutive values), and its material is
\* the one the 40 bytes at its material offset encode.
C17_FacelistContent ==
    \A k \in 1..Len(stack) :
        (stack[k].fn = "NxfFacelist_from_read" /\ AtReturn(k)) =>
            LET g == stack[k].pos0
                tag == file[g + 3]
                lay == TriLayout(tag)
                K == U32At(g + 12)
                at == U32At(g + 16)
                faces == stack[k].loc.faces
            IN  /\ tag \in Tags
                /\ faces.ctor = VariantOf(tag)
                /\ Len(faces.faces) = K
                /\ \A i \in 1..K :
                      /\ DOMAIN faces.faces[i]
                            = {"ctor"} \cup {lay[j] : j \in 1..Len(lay)}
                      /\ \A j \in 1..Len(lay) :
                            faces.faces[i][lay[j]]
                                = U16At(at + (i - 1) * 2 * Len(lay) + 2 * (j - 1))
                /\ stack[k].loc.material = MaterialAt(U32At(g + 8))

\* from_read returns a facelist of tag 11 with one face and a material that
\* names a texture
C17_Witness ==
    /\ stack # <<>> /\ AtReturn(Len(stack))
    /\ Top.fn = "NxfFacelist_from_read"
    /\ Top.loc.facelist_type = 11
    /\ Len(Top.loc.faces.faces) = 1
    /\ Top.loc.material.tex_name # <<>>

----------------------------------------------------------------------------
\* C19: whenever NxfFacelistSet::from_read, started on the record at offset
\* g, is about to return Ok, its matrix palette is None whatever the palette
\* offset field (at g + 16) holds, and that field was read and not followed:
\* reading it is the last thing done to the source, and the cursor is just
\* past it.
C19_PaletteAbsent ==
    \A k \in 1..Len(stack) :
        (stack[k].fn = "NxfFacelistSet_from_read" /\ AtReturn(k)) =>
            LET g == stack[k].pos0
            IN  /\ stack[k].loc.mat_palette = "None"
                /\ stack[k].loc._mat_palette_offset = U32At(g + 16)
                /\ log[Len(log)] = <<"read", g + 16, 4, "NxfFacelistSet_from_read">>
                /\ pos = g + 20

\* from_read returns a set whose palette offset field is not 0
C19_Witness ==
    /\ stack # <<>> /\ AtReturn(Len(stack))
    /\ Top.fn = "NxfFacelistSet_from_read"
    /\ Top.loc._mat_palette_offset # 0

----------------------------------------------------------------------------
\* frame k is a chain decoder walking a chain that leads back to a record of
\* its own
OnCyclicChain(k) ==
    /\ stack[k].fn \in ListFns
    /\ ~ChainEnds(HeadOf(k), NextAt(stack[k].fn), {})

\* C20: a chain decoder on a cyclic chain never returns: at every test of
\* its loop the offset is a record of the chain, never 0, however many
\* records it has collected, and as long as no seek or read has failed the
\* decode is still running; the decode of such a file never returns a model.
C20_CyclicChainNeverReturns ==
    /\ \A k \in 2..Len(stack) :
          OnCyclicChain(k) =>
              LET fn == stack[k].fn
                  recs == ChainRecords(HeadOf(k), NextAt(fn), {})
              IN  /\ ~AtReturn(k)
                  /\ InsOf(k).op # "retv"
                  /\ stack[k].loc.offset \in {recs[i] : i \in 1..Len(recs)}
                  /\ Failed \/ status = "run"
    /\ ~AcyclicChains => status # "ok"

\* a chain decoder on a cyclic chain is at the test of its loop with more
\* records collected than the chain has
C20_Witness ==
    /\ stack # <<>> /\ status = "run"
    /\ OnCyclicChain(Len(stack))
    /\ Ins.op = "brz"
    /\ Len(Top.loc[ListOf(Top.fn)])
          > Len(ChainRecords(HeadOf(Len(stack)), NextAt(Top.fn), {}))

----------------------------------------------------------------------------
\* the text of a 32-byte name field: its bytes before the first zero byte,
\* all 32 when none is zero, as UTF-8
NameText(bs) ==
    LET zs == {i \in 1..32 : bs[i] = 0}
    IN  Utf8Decode(IF zs = {} THEN bs
                   ELSE SubSeq(bs, 1, (CHOOSE i \in zs : \A j \in zs : i <= j) - 1))

\* the name fields of a function: <<offset in its record, buffer, name,
\* the field read after it>>
NameFields(fn) ==
    CASE fn = "SceneTemplate_from_read" -> {<<12, "name_bytes", "name", "x_cut_size">>}
      [] fn = "ScenePlacement_from_read" ->
            {<<8, "model_name_bytes", "model_name", "geom_name_bytes">>,
             <<40, "geom_name_bytes", "geom_name", "x_pos">>}
      [] OTHER -> {}

\* C18: each name field (template name, placement model name, placement
\* geometry name) of a record at offset g takes exactly 32 bytes of the
\* source: its buffer is the 32 bytes at g + its offset, read by one read of
\* 32 bytes, and the field after it is read 32 bytes further on; the name
\* decoded from it is the text of its bytes before the first zero byte, or of
\* all 32 when none is zero.
C18_NameFieldIs32Bytes ==
    \A k \in 1..Len(stack) :
        \A nf \in NameFields(stack[k].fn) :
            LET at == stack[k].pos0 + nf[1]
                loc == stack[k].loc
            IN  /\ nf[2] \in DOMAIN loc =>
                      /\ loc[nf[2]] = Slice(file, at, 32)
                      /\ \E t \in Since(k) : log[t] = <<"read", at, 32, stack[k].fn>>
                /\ nf[3] \in DOMAIN loc => loc[nf[3]] = NameText(Slice(file, at, 32))
                /\ nf[4] \in DOMAIN loc =>
                      \E t \in Since(k) :
                          /\ log[t][1] = "read" /\ log[t][2] = at + 32
                          /\ log[t - 1] = <<"read", at, 32, stack[k].fn>>

\* a placement has been decoded whose model name has text after its first
\* zero byte and whose geometry name has no zero byte
C18_Witness ==
    /\ stack # <<>> /\ Top.fn = "ScenePlacement_from_read" /\ AtReturn(Len(stack))
    /\ Top.loc.model_name_bytes = Names.junk /\ Top.loc.model_name = <<65, 98>>
    /\ Top.loc.geom_name_bytes = Names.full /\ Len(Top.loc.geom_name) = 32

----------------------------------------------------------------------------
\* the offset of the record chain decoder k decoded last: the target of its
\* last seek
LastRecord(k) ==
    LET ts == {t \in Since(k) : log[t][1] = "seek" /\ log[t][4] = stack[k].fn}
    IN  log[CHOOSE t \in ts : \A u \in ts : u <= t][2]

\* C21: whenever a chain decoder comes back to the test of its loop after a
\* record at offset s, the offset it goes on with is the 32-bit value stored
\* at s + 20 for a facelist (read by NxfFacelist::from_read as a field of the
\* 32-byte record, followed by the two display-list fields at s + 24 and
\* s + 28), at s + 40 for a material and at s + 20 for a facelist set (read
\* by the chain decoder itself, right after the last field of the record, at
\* s + 36 and s + 16).
C21_NextOffsetPlacement ==
    \A k \in 1..Len(stack) :
        (/\ stack[k].fn \in ListFns /\ stack[k].pc = 3 /\ status = "run"
         /\ stack[k].loc[ListOf(stack[k].fn)] # <<>>) =>
            LET fn == stack[k].fn
                s == LastRecord(k)
                n == Len(log)
            IN  /\ stack[k].loc.offset = U32At(s + NextAt(fn))
                /\ IF fn = "NxfFacelist_list_from_read"
                   THEN /\ log[n - 2] = <<"read", s + 20, 4, "NxfFacelist_from_read">>
                        /\ log[n - 1] = <<"read", s + 24, 4, "NxfFacelist_from_read">>
                        /\ log[n] = <<"read", s + 28, 4, "NxfFacelist_from_read">>
                        /\ \A t \in Since(k) : log[t][4] = fn => log[t][1] # "read"
                   ELSE /\ log[n] = <<"read", s + NextAt(fn), 4, fn>>
                        /\ log[n - 1][1] = "read" /\ log[n - 1][4] # fn
                        /\ log[n - 1][2] + log[n - 1][3] = s + NextAt(fn)

\* a facelist chain decoder is back at the test of its loop with one record
\* collected and another to go, after the material chain was walked
C21_Witness ==
    /\ stack # <<>> /\ status = "run"
    /\ Top.fn = "NxfFacelist_list_from_read" /\ Top.pc = 3
    /\ Len(Top.loc.facelists) = 1 /\ Top.loc.offset # 0
    /\ stack[1].loc.materials # <<>>

----------------------------------------------------------------------------
\* a log entry of a seek or read that failed
IsFailure(e) == e[1] \in {"short", "ioerr"}

\* C22: a failed seek or read is the last thing a decode does to the source:
\* no seek or read follows it in the log (so a read_at_offset whose seek to
\* the target or whose step failed neither seeks back to its saved position
\* nor runs the step again), the cursor stays where the failed operation
\* left it, and the error of that operation is what travels up through
\* every read_at_offset on the stack and is the result of the decode: a
\* read_at_offset the error passes has no result of its step, unless it is
\* its own seek back that failed.
C22_NoActionAfterFailure ==
    /\ \A t \in 1..Len(log) : IsFailure(log[t]) => t = Len(log)
    /\ status \in {"unwind", "err"} =>
          LET e == log[Len(log)]
          IN  /\ IsFailure(e)
              /\ result = << [ctor |-> "Err",
                              kind |-> IF e[1] = "short" THEN "UnexpectedEof"
                                       ELSE "Other"] >>
              /\ pos = IF e[1] = "short" THEN read_exact(file, e[2], e[3]).pos
                       ELSE e[2]
    /\ status = "unwind" =>
          \A k \in 1..Len(stack) :
              stack[k].fn = "read_at_offset" =>
                  /\ stack[k].pc \in 1..4
                  /\ stack[k].pc = 4 => k = Len(stack)
                  /\ stack[k].pc < 4 => "result" \notin DOMAIN stack[k].loc

\* the step of a read_at_offset has failed inside a nested read_at_offset,
\* with the cursor away from the positions both of them saved
C22_Witness ==
    /\ status = "unwind"
    /\ \E k \in 1..Len(stack) : \E j \in 1..Len(stack) :
          /\ k < j /\ j < Len(stack)
          /\ stack[k].fn = "read_at_offset" /\ stack[k].pc = 3
          /\ stack[j].fn = "read_at_offset" /\ stack[j].pc = 3
          /\ pos # stack[k].loc.saved_offset
          /\ pos # stack[j].loc.saved_offset

----------------------------------------------------------------------------
\* the variable a function keeps the cursor position in that it saves
SavedIn(fn) ==
    IF fn = "read_at_offset" THEN "saved_offset"
    ELSE IF fn \in ListFns THEN "save" ELSE ""

\* frame k has saved the cursor position and has not yet sought back to it
Saving(k) ==
    /\ SavedIn(stack[k].fn) \in DOMAIN stack[k].loc
    /\ ~(InsOf(k).op = "retv")

\* the frames that hold a saved position, and what each of them is decoding
Savers == {k \in 1..Len(stack) : Saving(k)}
SaverKind(k) ==
    IF stack[k].fn = "read_at_offset" THEN stack[k].loc.f ELSE stack[k].fn

\* C23: at every moment of a decode at most 4 cursor positions are saved and
\* not yet restored, whatever the chain lengths, counts and size of the file;
\* when there are 4 they are those of the facelist-set chain, the facelist
\* chain, the material and the texture name.  Every saved position is the
\* cursor at the entry of the function that saved it, saved before any
\* position saved by a function it has called since; and a function that has
\* just sought back is the one that saved last: it leaves the cursor at its
\* saved position while every position saved before it is still held.
C23_SavedPositionsBounded ==
    /\ Cardinality(Savers) <= 4
    /\ Cardinality(Savers) = 4 =>
          \E a, b, c, d \in Savers :
              /\ a < b /\ b < c /\ c < d
              /\ SaverKind(a) = "NxfFacelistSet_list_from_read"
              /\ SaverKind(b) = "NxfFacelist_list_from_read"
              /\ SaverKind(c) = "NxfFacelist_material_f"
              /\ SaverKind(d) = "read_string_f"
    /\ \A k \in Savers :
          /\ stack[k].loc[SavedIn(stack[k].fn)] = stack[k].pos0
          /\ log[stack[k].t0 + 1] = <<"tell", stack[k].pos0, 0, stack[k].fn>>
          /\ \A j \in Savers : k < j => stack[k].t0 < stack[j].t0
    /\ \A k \in 1..Len(stack) :
          (SavedIn(stack[k].fn) # "" /\ AtReturn(k)) =>
              /\ pos = stack[k].loc[SavedIn(stack[k].fn)]
              /\ log[Len(log)] = <<"seek", pos, 0, stack[k].fn>>
              /\ \A j \in Savers : j < k

\* the texture name of the material of a facelist is being read: four
\* positions are saved
C23_Witness ==
    /\ stack # <<>> /\ status = "run" /\ Top.fn = "read_string"
    /\ Cardinality(Savers) = 4

----------------------------------------------------------------------------
\* C24: when NxfObjGeom::from_read is about to return Ok, and when it has
\* returned, the cursor is 68 bytes past the position the decode started at,
\* the end of the root record, whose last field (at 64) was the last thing
\* read: nothing the decode dereferenced on the way has left the cursor
\* elsewhere.
C24_CursorAfterRootRecord ==
    /\ status = "ok" =>
          /\ pos = 68
          /\ log[Len(log)] = <<"read", 64, 4, "NxfObjGeom_from_read">>
    /\ (stack # <<>> /\ stack[1].fn = "NxfObjGeom_from_read" /\ AtReturn(1)) =>
          pos = stack[1].pos0 + 68

\* a decode has returned a model with strings, materials, vertex buffers and
\* MaxChain facelist sets of MaxChain facelists, all of which lie past the
\* root record
C24_Witness ==
    /\ status = "ok"
    /\ result[1].strings # <<>> /\ result[1].materials # <<>>
    /\ result[1].arrays.verts # <<>>
    /\ Len(result[1].facelist_sets) = MaxChain
    /\ Len(result[1].facelist_sets[MaxChain].facelists) = MaxChain
    /\ \E t \in 1..Len(log) : log[t][1] = "read" /\ log[t][2] > Len(file) - 8

----------------------------------------------------------------------------
\* C25: the facelist count a set declares (at g + 8 of the record at g) is
\* read and decides nothing: whenever NxfFacelistSet::from_read is about to
\* return Ok it holds as many facelists as the chain from the set's first
\* facelist offset (at g + 12) links, whatever the declared count; and a
\* model that is returned holds, for every set of the file, as many
\* facelists as that set's chain has records.
C25_DeclaredCountUnused ==
    /\ \A k \in 1..Len(stack) :
          (stack[k].fn = "NxfFacelistSet_from_read" /\ AtReturn(k)) =>
              LET g == stack[k].pos0
              IN  /\ stack[k].loc._num_lists = U32At(g + 8)
                  /\ Len(stack[k].loc.facelists)
                        = Len(ChainFrom(U32At(g + 12), 20, Len(file)))
    /\ status = "ok" =>
          /\ Len(result[1].facelist_sets) = Len(FileSets)
          /\ \A x \in 1..Len(FileSets) :
                Len(result[1].facelist_sets[x].facelists) = Len(FileFacelists(x))

\* a model has been returned for a file with a set that declares 0 facelists
\* and has some, and a set that declares some and has a first facelist
\* offset of 0
C25_Witness ==
    /\ status = "ok"
    /\ \E x, y \in 1..Len(FileSets) :
          /\ U32At(FileSets[x] + 8) = 0
          /\ Len(result[1].facelist_sets[x].facelists) > 0
          /\ U32At(FileSets[y] + 8) > 0
          /\ U32At(FileSets[y] + 12) = 0
          /\ result[1].facelist_sets[y].facelists = <<>>

----------------------------------------------------------------------------
\* frame k is a read_string that came to the end of the source before it
\* found a zero byte
AtEndOfSource(k) ==
    /\ stack[k].fn = "read_string"
    /\ \E t \in Since(k) : log[t][1] = "eof"

\* C26: a read_string that comes to the end of the source before a zero byte
\* succeeds: it goes on to return Ok with the text of the bytes from its
\* start position to the end of the source (the empty string when it started
\* at or past the end), and neither an error nor a panic ends it.
C26_ReadStringAtEndSucceeds ==
    \A k \in 1..Len(stack) :
        AtEndOfSource(k) =>
            LET p == stack[k].pos0
                rest == IF p < Len(file) THEN Slice(file, p, Len(file) - p) ELSE <<>>
            IN  /\ status = "run"
                /\ stack[k].loc.buffer = rest
                /\ AtReturn(k) => stack[k].loc.string = Utf8Decode(rest)

----------------------------------------------------------------------------
\* C27: a ScenePlacement::from_read started at offset g of the source never
\* reads past g + 124 + data_len, data_len being the 32-bit value at g + 120.
\* Its payload buffer is the data_len bytes at g + 124, read by one read; the
\* type-specific values are the leading 32-bit values of that buffer; a
\* payload shorter than its main type needs is an error raised with the
\* cursor at g + 124 + data_len and nothing read after the payload; and when
\* it is about to return Ok, for a known or an unknown main type, the cursor
\* is at g + 124 + data_len.
C27_PlacementConsumes124PlusData ==
    \A k \in 1..Len(stack) :
        stack[k].fn = "ScenePlacement_from_read" =>
            LET g == stack[k].pos0
                loc == stack[k].loc
                need == 4 * Len(PlacementWords(loc.main_type))
            IN  /\ \A t \in Since(k) :
                      log[t][1] = "read" =>
                          /\ log[t][2] + log[t][3] <= g + 124
                                + (IF "data_len" \in DOMAIN loc THEN loc.data_len ELSE 0)
                /\ "data_vec" \in DOMAIN loc =>
                      /\ loc.data_len = U32At(g + 120)
                      /\ loc.data_vec = Slice(file, g + 124, loc.data_len)
                      /\ log[Len(log)] = <<"read", g + 124, loc.data_len, stack[k].fn>>
                      /\ pos = g + 124 + loc.data_len
                      /\ status = "unwind" => loc.data_len < need
                /\ "data" \in DOMAIN loc =>
                      /\ loc.data_len >= need
                      /\ loc.data.ctor = PlacementVariant(loc.main_type)
                      /\ need > 0 =>
                            \A j \in 1..(need \div 4) :
                                loc.data.fields[j][2] = U32At(g + 124 + 4 * (j - 1))
                      /\ loc.data.ctor = "Unknown" => loc.data.data = loc.data_vec
                /\ AtReturn(k) => "data" \in DOMAIN loc

\* a camera placement with two payload bytes more than a camera needs is
\* about to be returned, the bytes of another placement following it
C27_Witness ==
    /\ stack # <<>> /\ Top.fn = "ScenePlacement_from_read" /\ AtReturn(Len(stack))
    /\ Top.loc.main_type = 9 /\ Top.loc.data_len = 18
    /\ Top.loc.data.ctor = "Camera"
    /\ pos = Top.pos0 + 142 /\ pos + 124 <= Len(file)

----------------------------------------------------------------------------
\* the facelists of a model, set after set, in the order they are written
Facelists(nxf) ==
    Concat([s \in 1..Len(nxf.facelist_sets) |-> nxf.facelist_sets[s].facelists])

\* the index of the first facelist write_library_geometries cannot write,
\* 0 when it can write all of them
FirstUnwritable(nxf) ==
    LET fls == Facelists(nxf)
        bad == {i \in 1..Len(fls) :
                   fls[i].faces.ctor \notin {"TexUnlitTri", "ColUnlitTri"}}
    IN  IF bad = {} THEN 0 ELSE CHOOSE i \in bad : \A j \in bad : i <= j

\* how many events of this kind and element name frame k has written
Written(k, kind, name) ==
    Cardinality({t \in Since(k) : log[t][1] = kind /\ log[t][2] = name})

\* C28: Nxf2Collada::write_collada gets past write_library_geometries, and so
\* to its return, only for a model all of whose facelists are TexUnlitTri or
\* ColUnlitTri.  For a model with a facelist of another variant the call ends
\* in the panic of unimplemented!() unless a write failed before; an Err
\* travelling up from it is that of a failed write, and when it has panicked
\* the output holds the COLLADA start, the complete effect, image and material
\* libraries with one entry per material, the three-element opening of
\* library_geometries, the complete triangles elements of the facelists before
\* the first one it cannot write, and the opened triangles element of that one.
\* That panic happens for no other model.
C28_UnimplementedFacelistAborts ==
    \A k \in 1..Len(stack) :
        stack[k].fn = "Nxf2Collada_write_collada" =>
            LET nxf == stack[k].loc.nxf
                lit == FirstUnwritable(nxf)
                aborted == /\ status = "panic"
                           /\ result[1].msg = "not implemented"
            IN  /\ stack[k].pc > 5 => lit = 0
                /\ AtReturn(k) => lit = 0
                /\ aborted => lit # 0
                /\ lit # 0 /\ status = "unwind" => log[Len(log)][1] = "ioerr"
                /\ lit # 0 /\ status = "panic" => aborted
                /\ aborted =>
                      /\ stack[k].pc = 5
                      /\ Top.fn = "Nxf2Collada_write_library_geometries"
                      /\ Written(k, "start", "COLLADA") = 1
                      /\ Written(k, "end", "COLLADA") = 0
                      /\ \A lib \in {"library_effects", "library_images",
                                     "library_materials"} :
                            /\ Written(k, "start", lib) = 1
                            /\ Written(k, "end", lib) = 1
                      /\ \A entry \in {"effect", "image", "material"} :
                            /\ Written(k, "start", entry) = Len(nxf.materials)
                            /\ Written(k, "end", entry) = Len(nxf.materials)
                      /\ Written(k, "start", "library_geometries") = 1
                      /\ Written(k, "end", "library_geometries") = 0
                      /\ Written(k, "start", "triangles") = lit
                      /\ Written(k, "end", "triangles") = lit - 1
                      /\ Written(k, "start", "library_nodes") = 0
                      /\ OpenElements = <<"COLLADA", "library_geometries", "geometry",
                                          "mesh", "triangles">>

\* the conversion of a model with two materials has panicked at its second
\* facelist, a ColLitTri one, after writing the triangles of the first
C28_Witness ==
    /\ status = "panic" /\ result[1].msg = "not implemented"
    /\ \E k \in 1..Len(stack) :
          /\ stack[k].fn = "Nxf2Collada_write_collada"
          /\ Len(stack[k].loc.nxf.materials) = 2
          /\ FirstUnwritable(stack[k].loc.nxf) = 2
          /\ Facelists(stack[k].loc.nxf)[2].faces.ctor = "ColLitTri"
          /\ Written(k, "end", "triangles") = 1

----------------------------------------------------------------------------
\* how many events of this kind frame k has written
Events_written(k, kind) ==
    Cardinality({t \in Since(k) : log[t][1] = kind})

\* C29: in Nxf2Collada::write_collada and in Sf2Collada::write_collada, at
\* every point of the call the end-element events written so far are no more
\* than the start-element events, the difference being the number of elements
\* open while no write has failed; no end_element() is ever refused for want of an open element; and
\* when the call is about to return Ok the two counts are equal, no element
\* is open, the first event was the start of COLLADA and the last one its end.
C29_StartEndBalanced ==
    /\ status \in {"unwind", "err"} => result[1].kind # "LastElementNameNotAvailable"
    /\ \A k \in 1..Len(stack) :
          stack[k].fn \in {"Nxf2Collada_write_collada", "Sf2Collada_write_collada"} =>
              LET depth == Events_written(k, "start") - Events_written(k, "end")
              IN  /\ depth >= 0
                  /\ status = "run" => depth = Len(OpenElements)
                  /\ \A t \in Since(k) :
                        /\ log[t][1] \in {"start", "end", "text", "ioerr"}
                        /\ log[t][1] = "end" => log[t][2] # ""
                        /\ log[t][1] = "text" => log[t][3] # <<>>
                  /\ AtReturn(k) =>
                        /\ depth = 0
                        /\ OpenElements = <<>>
                        /\ Events_written(k, "start") >= 10
                        /\ log[stack[k].t0 + 1][1] = "start"
                        /\ log[stack[k].t0 + 1][2] = "COLLADA"
                        /\ log[Len(log)][1] = "end"
                        /\ log[Len(log)][2] = "COLLADA"

\* Nxf2Collada::write_collada is about to return Ok for a model with two
\* materials and two facelists
C29_Witness ==
    /\ stack # <<>> /\ Top.fn = "Nxf2Collada_write_collada" /\ AtReturn(Len(stack))
    /\ Len(Top.loc.nxf.materials) = 2
    /\ Len(Facelists(Top.loc.nxf)) = 2
    /\ Events_written(Len(stack), "start") = Events_written(Len(stack), "end")
    /\ Events_written(Len(stack), "start") > 60

----------------------------------------------------------------------------
\* the checks main makes before it opens a file have passed
Validated(args) ==
    /\ args.parse_ok /\ ~args.help /\ args.free # <<>>
    /\ Len(Operations(args)) = 1

\* whether a file has been opened or created in log l
Touched(l) == \E t \in 1..Len(l) : l[t][1] \in {"open", "create"}

\* whether the run has ended with process::exit(-1) in state <<st, res>>
FailureExit(st, res) == st = "exit" /\ res[1].code = -1

\* in log l nothing was decoded or written before the input file was opened
\* and then the output file created
CreatedBeforeDecode(l) ==
    \A t \in 1..Len(l) :
        l[t][4] # "main" =>
            /\ l[1] = <<"open", "in", 0, "main">>
            /\ l[2] = <<"create", "out", 0, "main">>

\* C30 as stated: no step of main opens or creates a file unless the checks
\* have passed; a run with both or with neither of --sf and --nxf ends in a
\* failure exit with no file opened or created; and nothing is decoded before
\* the output file is created.
C30_FailureExitWithoutOneInput ==
    [][stack # <<>> /\ stack[1].fn = "main" =>
          LET args == stack[1].loc.args
          IN  /\ Touched(log') => Validated(args)
              /\ Len(Operations(args)) # 1 /\ status' # "run" =>
                    FailureExit(status', result') /\ ~Touched(log')
              /\ CreatedBeforeDecode(log')
              /\ Len(stack') >= 2 => Touched(log')]_vars

\* C30, amended: no step of main opens or creates a file unless the checks
\* have passed (the command line parsed, help not requested, an output file
\* name present, exactly one of --sf and --nxf given).  A run with both or
\* with neither input option never opens or creates a file; it ends in a
\* failure exit when the command line parsed, help was not requested and an
\* output file name is present, and it ends by printing the help and
\* returning normally when help was requested or the output file name is
\* missing.  The input is opened and then the output created before anything
\* is decoded, so the unwrap of a failed decode panics with the output file
\* already created.
C30_ValidationBeforeFiles ==
    [][stack # <<>> /\ stack[1].fn = "main" =>
          LET args == stack[1].loc.args
          IN  /\ Touched(log') => Validated(args)
              /\ Len(Operations(args)) # 1 => ~Touched(log')
              /\ Len(Operations(args)) # 1 /\ status' # "run" =>
                    IF args.parse_ok /\ (args.help \/ args.free = <<>>)
                    THEN /\ status' = "ok"
                         /\ log' = << <<"print", "help", 0, "main">> >>
                    ELSE FailureExit(status', result')
              /\ CreatedBeforeDecode(log')
              /\ Len(stack') >= 2 => Touched(log')
              /\ status' = "panic" /\ stack'[1].pc = 22 =>
                    /\ log'[2] = <<"create", "out", 0, "main">>
                    /\ Len(log') > 2]_vars

\* a run with both --sf and --nxf, an input file that exists and an output
\* file that could be created has ended in a failure exit with nothing
\* opened or created
C30_Witness ==
    /\ status = "exit" /\ result[1].code = -1
    /\ stack[1].fn = "main"
    /\ Len(Operations(stack[1].loc.args)) = 2
    /\ Validated([stack[1].loc.args EXCEPT !.nxf = <<>>])
    /\ stack[1].loc.exists /\ stack[1].loc.creatable
    /\ ~Touched(log)

====
